---- MODULE Spec2Model ----
(***************************************************************************)
(* Contest-entry application: single-use tokens, the validate-token and    *)
(* submit endpoints, the in-process TTL cache (lib/cache.ts), the          *)
(* in-process rate limiter (lib/rate-limit.ts), the token seed script and  *)
(* the relational store (Token / Response rows with their constraints).    *)
(*                                                                         *)
(* Time is Date.now() in milliseconds.  The clock advances in steps of     *)
(* TickMs, the shortest TTL of the program, so that every expiry the       *)
(* program computes is met exactly and then passed.                        *)
(***************************************************************************)
EXTENDS Integers, Sequences, FiniteSets, TLC

\* ------------------------------------------------------------------ bounds
\* Number of clock steps explored.
MaxTicks == 1
\* Capacity of the SimpleCache.  The constructor's default is 1000
\* (lib/cache.ts: constructor(maxSize = 1000)); the model runs the same code
\* with a small capacity so that the capacity branch of set is exercised.
MaxSize == 3

\* --------------------------------------------------------- program constants
TtlNotFound == 30000
TtlValid == 60000
TtlNegativeMinutes == 5
TtlSubmittedMinutes == 10
MsPerMinute == 60000
TtlNegative == TtlNegativeMinutes * MsPerMinute
TtlSubmitted == TtlSubmittedMinutes * MsPerMinute

TickMs == TtlNotFound

\* Token codes that requests, the token file and the store range over.
Codes == {"A", "B", "C"}

\* `token:${tokenCode}`
CacheKey(code) == "token:" \o code
CacheKeys == {CacheKey(c) : c \in Codes}

\* The bodies the endpoints cache and return.
MsgInvalid == "Invalid token provided."
MsgUsed == "This token has already been used."
MsgNotValid == "This token is not valid for the contest."
MsgValid == "Token is valid"
VerdictInvalid == [message |-> MsgInvalid, valid |-> FALSE]
VerdictUsed == [message |-> MsgUsed, valid |-> FALSE]
VerdictNotValid == [message |-> MsgNotValid, valid |-> FALSE]
VerdictValid == [message |-> MsgValid, valid |-> TRUE]
Verdicts == {VerdictInvalid, VerdictUsed, VerdictNotValid, VerdictValid}

\* JavaScript's undefined, the result of a Map lookup that finds nothing.
Undefined == [undefined |-> TRUE]

Min(a, b) == IF a < b THEN a ELSE b
Max(a, b) == IF a > b THEN a ELSE b
\* Math.ceil(a / b) for a >= 0, b > 0
CeilDiv(a, b) == (a + b - 1) \div b

\* ------------------------------------------------------------- SimpleCache
\* this.cache: a Map, kept in insertion order, as a sequence of
\* [key, value, expiry].

CacheIndex(c, k) ==
  IF \E i \in 1..Len(c) : c[i].key = k
  THEN CHOOSE i \in 1..Len(c) : c[i].key = k
  ELSE 0

CacheHas(c, k) == CacheIndex(c, k) # 0

\* Map.prototype.get
CacheEntry(c, k) == IF CacheHas(c, k) THEN c[CacheIndex(c, k)] ELSE Undefined

\* Array.from(this.cache.keys()), as a set
CacheKeysOf(c) == {c[i].key : i \in 1..Len(c)}

\* Map.prototype.delete
CacheRemove(c, k) == SelectSeq(c, LAMBDA e : e.key # k)

\* Map.prototype.set: an existing key keeps its place, a new key goes last.
CachePut(c, k, v, exp) ==
  IF CacheHas(c, k)
  THEN [c EXCEPT ![CacheIndex(c, k)] = [key |-> k, value |-> v, expiry |-> exp]]
  ELSE Append(c, [key |-> k, value |-> v, expiry |-> exp])

\* get returns undefined when the entry expired one millisecond too early.
CacheGetValue_ExpiresEarly(c, k, t) ==
  IF ~CacheHas(c, k) \/ CacheEntry(c, k).expiry <= t
  THEN Undefined
  ELSE CacheEntry(c, k).value

\* SimpleCache.get: the value returned at time t.
CacheGetValue(c, k, t) ==
  IF ~CacheHas(c, k) \/ CacheEntry(c, k).expiry < t
  THEN Undefined
  ELSE CacheEntry(c, k).value

\* SimpleCache.get: the map after the call (an expired entry is deleted).
CacheAfterGet(c, k, t) ==
  IF CacheHas(c, k) /\ CacheEntry(c, k).expiry < t
  THEN CacheRemove(c, k)
  ELSE c

\* Math.ceil(this.maxSize * 0.1)
EntriesToDelete == CeilDiv(MaxSize, 10)

\* The capacity branch deletes nothing.
CacheEvict_Nothing(c) == c

\* The capacity branch deletes the newest entries instead of the oldest.
CacheEvict_Newest(c) ==
  IF Len(c) >= MaxSize
  THEN SubSeq(c, 1, Len(c) - Min(EntriesToDelete, Len(c)))
  ELSE c

\* SimpleCache.set, the capacity branch: the first entriesToDelete keys of
\* Array.from(this.cache.keys()) are deleted.
CacheEvict(c) ==
  IF Len(c) >= MaxSize
  THEN SubSeq(c, Min(EntriesToDelete, Len(c)) + 1, Len(c))
  ELSE c

\* SimpleCache.set
CacheSet(c, k, v, ttlMs, t) == CachePut(CacheEvict(c), k, v, t + ttlMs)

\* SimpleCache.delete
CacheDelete(c, k) == CacheRemove(c, k)

\* SimpleCache.clear
CacheClear(c) == << >>

\* The sweep removes an entry at its expiry time, one millisecond before get
\* stops returning it.
CacheCleanup_AtExpiry(c, t) == SelectSeq(c, LAMBDA e : ~(e.expiry <= t))

\* SimpleCache.cleanup, run by setInterval every minute
CacheCleanup(c, t) == SelectSeq(c, LAMBDA e : ~(e.expiry < t))

\* ------------------------------------------------------------ rate limiter
\* Number of clock steps explored by the cache specification.
UnitMaxTicks == 4
\* Number of clock steps and of middleware calls explored by the limiter
\* specification.
LimiterMaxTicks == 3
MaxChecks == 7
\* uniqueTokenPerInterval.  The default is 500 (rateLimit's options); the
\* model runs the same code with a small value so that the size cap of check
\* is exercised.
UniqueTokenPerInterval == 1

\* interval: 60 * 1000 in both routes
Interval == 60000
SubmitLimit == 5
ValidateLimit == 15
Endpoints == {"submit", "validate"}
Limit(ep) == IF ep = "submit" THEN SubmitLimit ELSE ValidateLimit

\* Client identifiers (the x-forwarded-for / x-real-ip value, or 'unknown-ip').
Ips == {"ip1", "unknown-ip"}
\* More clients than the Map is meant to track.
CrowdIps == Ips \cup {"ip2", "ip3"}

\* tokenCache of lib/rate-limit.ts: one module-level Map shared by every
\* limiter, kept in insertion order, as a sequence of [key, count, resetTime].

RlIndex(m, k) ==
  IF \E i \in 1..Len(m) : m[i].key = k
  THEN CHOOSE i \in 1..Len(m) : m[i].key = k
  ELSE 0

RlHas(m, k) == RlIndex(m, k) # 0

\* check, the size cap: keys are deleted in insertion order while
\* count <= uniqueTokenPerInterval / 4.
RlEvictCount == (UniqueTokenPerInterval \div 4) + 1

\* The size cap deletes nothing.
RlEvict_Nothing(m) == m

RlEvict(m) ==
  IF Len(m) > UniqueTokenPerInterval
  THEN SubSeq(m, Min(RlEvictCount, Len(m)) + 1, Len(m))
  ELSE m

\* tokenCache.get(key) || { count: 0, resetTime: now + interval }, followed by
\* the reset of an expired window.
RlTokenData(m, k, t) ==
  LET d == IF RlHas(m, k)
           THEN [count |-> m[RlIndex(m, k)].count, resetTime |-> m[RlIndex(m, k)].resetTime]
           ELSE [count |-> 0, resetTime |-> t + Interval]
  IN IF d.resetTime < t THEN [count |-> 0, resetTime |-> t + Interval] ELSE d

RlPut(m, k, d) ==
  IF RlHas(m, k)
  THEN [m EXCEPT ![RlIndex(m, k)] = [key |-> k, count |-> d.count, resetTime |-> d.resetTime]]
  ELSE Append(m, [key |-> k, count |-> d.count, resetTime |-> d.resetTime])

\* tokenCache.get(key)
RlEntry(m, k) == IF RlHas(m, k) THEN m[RlIndex(m, k)] ELSE Undefined

\* The counter is raised and stored on a rejected check too.
RlCheck_CountsRejected(m, k, limit, t) ==
  LET m1 == RlEvict(m)
      d == RlTokenData(m1, k, t)
  IN [success |-> d.count < limit,
      limit |-> limit,
      remaining |-> Max(0, limit - d.count),
      reset |-> d.resetTime,
      map |-> RlPut(m1, k, [count |-> d.count + 1, resetTime |-> d.resetTime])]

\* rateLimit(options).check(identifier) at time t: the result and the map
\* after the call.
RlCheck(m, k, limit, t) ==
  LET m1 == RlEvict(m)
      d == RlTokenData(m1, k, t)
      success == d.count < limit
  IN [success |-> success,
      limit |-> limit,
      remaining |-> Max(0, limit - d.count),
      reset |-> d.resetTime,
      map |-> IF success
              THEN RlPut(m1, k, [count |-> d.count + 1, resetTime |-> d.resetTime])
              ELSE m1]

\* The setInterval callback of rateLimit.
RlCleanup(m, t) == SelectSeq(m, LAMBDA e : ~(e.resetTime < t))

\* No response: the middleware returns null and the route goes on.
NoResponse == [status |-> 0]

\* rateLimitMiddleware(req) of the route `ep` for a request from `ip`.
RateLimitMiddleware(m, ip, ep, t) ==
  LET r == RlCheck(m, ip, Limit(ep), t)
  IN [map |-> r.map,
      check |-> r,
      response |-> IF ~r.success
                   THEN [status |-> 429, retryAfter |-> CeilDiv(r.reset - t, 1000)]
                   ELSE NoResponse]

\* ------------------------------------------------------------------- state
VARIABLES
  now,        \* Date.now()
  cache,      \* tokenCache of lib/cache.ts (the SimpleCache singleton)
  rl,         \* tokenCache of lib/rate-limit.ts (the limiter's Map)
  lastMut,    \* history: the last set / delete / clear made on the cache, and
              \* the keys the capacity branch of that set removed
  everSet,    \* history: the keys set was ever called with
  lastGet,    \* history: the get just made on the cache, if the last call was a get
  lastSweep,  \* history: the sweep just made on the cache, if the last call was a
              \* sweep: its time and the keys it removed
  granted,    \* history: per identifier and route, the window in progress and
              \* the checks admitted in it
  lastCheck,  \* history: the middleware call just made, if the last step was one
  nChecks,    \* number of middleware calls made so far
  tokens,     \* the Token table, by token_code
  responses,  \* the response table of the contest (Response / FlowerResponse)
  procs,      \* the requests being handled, one per slot
  last,       \* the request that has just returned, if the last step was a return
  seed,       \* the seed script (prisma/seed.ts)
  neg,        \* history: per code, the last negative verdict a validation
              \* wrote to the cache after a miss
  variant,    \* the contest the deployed submit route is written for
  router,     \* the browser: the page shown and the token parameter of its URL
  tokenForm,  \* the component TokenForm: its state, its request, its timers
  guessForm,  \* the component GuessForm: its state, its request, its timers
  nReq,       \* number of requests received so far
  nTicks      \* number of clock steps made so far

unitVars == <<now, cache, rl, lastMut, everSet, lastGet, lastSweep, granted, lastCheck,
              nChecks>>
formVars == <<router, tokenForm, guessForm>>
appVars == <<tokens, responses, procs, last, seed, neg, variant, router, tokenForm, guessForm,
             nReq, nTicks>>
histVars == <<lastMut, everSet, lastGet, lastSweep, granted, lastCheck, nChecks>>
vars == <<now, cache, rl, lastMut, everSet, lastGet, lastSweep, granted, lastCheck, nChecks,
          tokens, responses, procs, last, seed, neg, variant, router, tokenForm, guessForm,
          nReq, nTicks>>

NoMut == [op |-> "none", key |-> "", value |-> Undefined, at |-> 0, ttl |-> 0,
          evicted |-> {}]
NoGet == [key |-> "", result |-> Undefined]
NoSweep == [swept |-> FALSE, at |-> 0, removed |-> {}]
NoWindow == [reset |-> 0, n |-> 0]
NoCheck == [ip |-> "", ep |-> "", success |-> TRUE, remaining |-> 0, reset |-> 0,
            response |-> NoResponse]

UnitInit ==
  /\ now = 0
  /\ cache = << >>
  /\ rl = << >>
  /\ lastMut = NoMut
  /\ everSet = {}
  /\ lastGet = NoGet
  /\ lastSweep = NoSweep
  /\ granted = [ip \in CrowdIps |-> [ep \in Endpoints |-> NoWindow]]
  /\ lastCheck = NoCheck
  /\ nChecks = 0

\* ------------------------------------------------------------- the store
\* A Token row as the routes select it (token_code is the key of `tokens`;
\* the row's id stands in one-to-one relation to it).  used_at is NULL or a
\* timestamp.
NoToken == [exists |-> FALSE, is_valid |-> FALSE, is_used |-> FALSE, used_at |-> "NULL"]
\* prisma.token.create({ token_code, is_valid: true }): is_used defaults to
\* false and used_at to NULL.
SeededToken == [exists |-> TRUE, is_valid |-> TRUE, is_used |-> FALSE, used_at |-> "NULL"]
\* A token an administrator has marked as not valid for the contest.
RevokedToken == [exists |-> TRUE, is_valid |-> FALSE, is_used |-> FALSE, used_at |-> "NULL"]

\* tokens.txt, character by character: ' C', 'C ', an empty line, a line with
\* a tab before 'A', and a last line of blanks; the first line ends with CR LF.
FileContent ==
  <<" ", "C", "\r", "\n", "C", " ", "\n", "\n", "\t", "A", "\n", " ", " ">>

\* The position of the first line feed of cs, 0 when it has none.
FirstLineFeed(cs) ==
  IF \E i \in 1..Len(cs) : cs[i] = "\n"
  THEN CHOOSE i \in 1..Len(cs) : cs[i] = "\n" /\ \A j \in 1..(i - 1) : cs[j] # "\n"
  ELSE 0

\* fileContent.split(/\r?\n/)
RECURSIVE SplitLines(_)
SplitLines(cs) ==
  LET i == FirstLineFeed(cs)
      line == SubSeq(cs, 1, i - 1)
  IN IF i = 0 THEN <<cs>>
     ELSE <<IF line # << >> /\ line[Len(line)] = "\r"
            THEN SubSeq(line, 1, Len(line) - 1)
            ELSE line>> \o SplitLines(SubSeq(cs, i + 1, Len(cs)))

\* The white space String.prototype.trim removes, of the characters of a line.
WhiteSpace == {" ", "\t", "\r"}

\* line.trim()
RECURSIVE Trim(_)
Trim(line) ==
  IF line = << >> THEN line
  ELSE IF Head(line) \in WhiteSpace THEN Trim(Tail(line))
  ELSE IF line[Len(line)] \in WhiteSpace THEN Trim(SubSeq(line, 1, Len(line) - 1))
  ELSE line

\* The string of the characters of cs.
RECURSIVE Join(_)
Join(cs) == IF cs = << >> THEN "" ELSE Head(cs) \o Join(Tail(cs))

\* Step 1 of main: split, trim, filter(line => line.length > 0)
ReadTokenFile(content) ==
  LET lines == SplitLines(content)
      trimmed == [i \in 1..Len(lines) |-> Join(Trim(lines[i]))]
  IN SelectSeq(trimmed, LAMBDA l : l # "")

\* tokens.txt, line by line, as read by the seed script
TokenFile == ReadTokenFile(FileContent)

\* Request slots: the requests the process handles at the same time.
NumProcs == 3
Procs == 1..NumProcs
\* Requests received (one more in the one-token specification) and seed runs
\* explored.
MaxRequests == 3
MaxSeedRuns == 1

NoResp == [status |-> 0, message |-> "", valid |-> FALSE, responseId |-> 0]
NoNeg == [verdict |-> Undefined, at |-> 0]

IdleProc ==
  [kind |-> "none", pc |-> "idle", code |-> "", snap |-> NoToken, resp |-> NoResp,
   \* history of the request in the slot
   admitted |-> FALSE,      \* the limiter let it through and its body was well-formed
   start |-> NoToken,       \* the Token row in the store when the request arrived
   afterOk |-> FALSE,       \* a submission of its code had returned 200 when it arrived
   raced |-> FALSE,         \* another submit of its code was in flight during it
   storeRead |-> FALSE,     \* it read the Token row from the store
   unusedAtEnd |-> FALSE,   \* no response row of its code was committed when it ended
   expect |-> "none",       \* what the negative entry found at arrival lets one expect
   expectVerdict |-> Undefined,
   threw |-> {},            \* the calls of the limiter and of the cache that threw
   wrote |-> {},            \* what its steps changed: Token rows, response rows, cache
   storeFailed |-> "none"]  \* the failure of its store call, if it failed

\* ------------------------------------------------------- the two forms
\* Date.now() when the page is loaded: a time of day of 2 January 1970, as
\* every clock reading is far more than a throttle delay after the epoch.
PageLoadTime == 86400000

\* The delays of TokenForm and of GuessForm, in milliseconds.
TokenThrottleMs == 800
TokenAbortMs == 8000
TokenLoadingMs == 500
WarningMs == 1500
GuessThrottleMs == 1000
GuessAbortMs == 10000
GuessLoadingMs == 800

\* handleSubmit calls explored per form, and clock steps between the timers.
FormMaxSubmits == 2
FormMaxTicks == 2
\* The time a response can take to arrive.
FormSteps == {100}

\* throttle(func, delay): the returned function calls func when delay has
\* passed since lastCall.
ThrottlePasses(lastCall, t, delay) == t - lastCall >= delay

\* String.prototype.toUpperCase, character by character
UpperChar(c) == IF c = "a" THEN "A" ELSE IF c = "b" THEN "B" ELSE c
ToUpperCase(cs) == [i \in 1..Len(cs) |-> UpperChar(cs[i])]

\* encodeURIComponent: letters stay, a blank and a percent sign are escaped.
RECURSIVE EncodeURIComponent(_)
EncodeURIComponent(cs) ==
  IF cs = << >> THEN << >>
  ELSE (IF Head(cs) = " " THEN <<"%", "2", "0">>
        ELSE IF Head(cs) = "%" THEN <<"%", "2", "5">>
        ELSE <<Head(cs)>>) \o EncodeURIComponent(Tail(cs))

\* searchParams.get: the percent escapes of the parameter are decoded.
RECURSIVE DecodeURIComponent(_)
DecodeURIComponent(cs) ==
  IF cs = << >> THEN << >>
  ELSE IF Len(cs) >= 3 /\ SubSeq(cs, 1, 3) = <<"%", "2", "0">>
    THEN <<" ">> \o DecodeURIComponent(SubSeq(cs, 4, Len(cs)))
  ELSE IF Len(cs) >= 3 /\ SubSeq(cs, 1, 3) = <<"%", "2", "5">>
    THEN <<"%">> \o DecodeURIComponent(SubSeq(cs, 4, Len(cs)))
  ELSE <<Head(cs)>> \o DecodeURIComponent(Tail(cs))

\* What the user types into the token field, and into a field of the guess
\* form.
TokenInputs == {<<" ">>, <<" ", "a", " ", "b", " ">>}
GuessInputs == {<<" ">>, <<" ", "N", " ">>}
GuessFields == {"fullName", "contactNumber", "flowerNameGuess"}

\* The responses fetch resolves with, and its rejection by the network.
\* response.ok is true for the statuses 200 to 299.
ResponseOk(o) == o.type = "response" /\ o.status >= 200 /\ o.status <= 299
Answer(status, valid, message) ==
  [type |-> "response", status |-> status, valid |-> valid, message |-> message]
NetworkError == [type |-> "network", status |-> 0, valid |-> FALSE, message |-> ""]
ValidateOutcomes ==
  {Answer(200, v.valid, v.message) : v \in Verdicts}
    \cup {Answer(429, FALSE, ""), Answer(400, FALSE, "Invalid input"),
          Answer(500, FALSE, "Database error occurred"), NetworkError}
SubmitOutcomes ==
  {Answer(200, FALSE, "Submission successful!"), Answer(429, FALSE, ""),
   Answer(409, FALSE, MsgUsed), Answer(500, FALSE, ""), NetworkError}

NoReq == [id |-> 0, tokenCode |-> "", entered |-> << >>]
NoDone == [why |-> "none", outcome |-> NetworkError, pushed |-> FALSE, error |-> "null",
           tokenCode |-> "", entered |-> << >>]

\* The URL of the page shown: its path and its token parameter, as written
\* in the URL; null when the URL has none.
Url(path, token) == [page |-> path, token |-> token]
NoParam == <<"null">>

\* TokenForm when it is mounted.
NewTokenForm ==
  [token |-> << >>, isLoading |-> FALSE, isValidating |-> FALSE, error |-> "null",
   retryCount |-> 0, showHighTrafficWarning |-> FALSE,
   lastCall |-> 0,         \* of the throttle made at the first render
   fetching |-> FALSE, req |-> NoReq, timers |-> {},
   sent |-> 0,             \* history: the requests sent
   submits |-> 0,          \* history: the calls of handleSubmit
   done |-> NoDone]        \* history: how the last call of handleSubmit ended

\* GuessForm before its effect has read the URL.
NewGuessForm ==
  [mounted |-> FALSE, token |-> NoParam,
   fullName |-> << >>, contactNumber |-> << >>, flowerNameGuess |-> << >>,
   isLoading |-> FALSE, isSubmitting |-> FALSE, error |-> "null", retryCount |-> 0,
   fetching |-> FALSE, req |-> NoReq, timers |-> {},
   sent |-> 0,             \* history: the requests sent
   submits |-> 0,          \* history: the calls of handleSubmit
   calls |-> << >>,        \* history: the calls of submitToApi
   failed |-> FALSE]       \* history: the last call of handleSubmit did not succeed

\* No page of the site is open.
FormsIdle ==
  /\ router = Url("/", NoParam)
  /\ tokenForm = NewTokenForm
  /\ guessForm = NewGuessForm

AppInit ==
  /\ tokens = [c \in Codes |->
                 IF c = "A" THEN SeededToken
                 ELSE IF c = "B" THEN RevokedToken
                 ELSE NoToken]
  /\ responses = {}
  /\ procs = [p \in Procs |-> IdleProc]
  /\ last = IdleProc
  /\ seed = [pc |-> "idle", todo |-> << >>, runs |-> 0, createdCount |-> 0, failedCount |-> 0]
  /\ neg = [c \in Codes |-> NoNeg]
  /\ variant = "flower"
  /\ FormsIdle
  /\ nReq = 0
  /\ nTicks = 0

Init == UnitInit /\ AppInit

\* The process has served PriorRequests requests of the client since time 0:
\* the limiter holds the client's counter.
PriorRequests == 3
ServeInit ==
  /\ now = 0
  /\ cache = << >>
  /\ rl = <<[key |-> "ip1", count |-> PriorRequests, resetTime |-> Interval]>>
  /\ lastMut = NoMut
  /\ everSet = {}
  /\ lastGet = NoGet
  /\ lastSweep = NoSweep
  /\ granted = [ip \in CrowdIps |-> [ep \in Endpoints |-> NoWindow]]
  /\ lastCheck = NoCheck
  /\ nChecks = 0
  /\ AppInit

\* ------------------------------------------------- the cache, operation by
\* operation
CacheTtls == {TtlNotFound, TtlValid}
CacheValues == {VerdictValid, VerdictUsed}

CSet(k, v, ttlMs) ==
  /\ cache' = CacheSet(cache, k, v, ttlMs, now)
  /\ lastMut' = [op |-> "set", key |-> k, value |-> v, at |-> now, ttl |-> ttlMs,
                 evicted |-> CacheKeysOf(cache) \ CacheKeysOf(CacheEvict(cache))]
  /\ everSet' = everSet \cup {k}
  /\ lastGet' = NoGet
  /\ lastSweep' = NoSweep
  /\ UNCHANGED <<now, rl, granted, lastCheck, nChecks>>
  /\ UNCHANGED appVars

CGet(k) ==
  /\ lastGet' = [key |-> k, result |-> CacheGetValue(cache, k, now)]
  /\ lastSweep' = NoSweep
  /\ cache' = CacheAfterGet(cache, k, now)
  /\ UNCHANGED <<now, rl, lastMut, everSet, granted, lastCheck, nChecks>>
  /\ UNCHANGED appVars

CDelete(k) ==
  /\ cache' = CacheDelete(cache, k)
  /\ lastMut' = [NoMut EXCEPT !.op = "delete", !.key = k, !.at = now]
  /\ lastGet' = NoGet
  /\ lastSweep' = NoSweep
  /\ UNCHANGED <<now, rl, everSet, granted, lastCheck, nChecks>>
  /\ UNCHANGED appVars

CClear ==
  /\ cache' = CacheClear(cache)
  /\ lastMut' = [NoMut EXCEPT !.op = "clear", !.at = now]
  /\ lastGet' = NoGet
  /\ lastSweep' = NoSweep
  /\ UNCHANGED <<now, rl, everSet, granted, lastCheck, nChecks>>
  /\ UNCHANGED appVars

CCleanup ==
  /\ cache' = CacheCleanup(cache, now)
  /\ lastGet' = NoGet
  /\ lastSweep' = [swept |-> TRUE, at |-> now,
                   removed |-> CacheKeysOf(cache) \ CacheKeysOf(cache')]
  /\ UNCHANGED <<now, rl, lastMut, everSet, granted, lastCheck, nChecks>>
  /\ UNCHANGED appVars

CTick ==
  /\ now + TickMs <= UnitMaxTicks * TickMs
  /\ now' = now + TickMs
  /\ lastGet' = NoGet
  /\ lastSweep' = NoSweep
  /\ UNCHANGED <<cache, rl, lastMut, everSet, granted, lastCheck, nChecks>>
  /\ UNCHANGED appVars

CacheNext ==
  \/ \E k \in CacheKeys, v \in CacheValues, ttlMs \in CacheTtls : CSet(k, v, ttlMs)
  \/ \E k \in CacheKeys : CGet(k)
  \/ \E k \in CacheKeys : CDelete(k)
  \/ CClear
  \/ CCleanup
  \/ CTick

SpecCache == Init /\ [][CacheNext]_vars

\* The cache with more keys in use than it has room for: the keys of the
\* token codes and one more.
FullKeys == CacheKeys \cup {CacheKey("D")}

CacheFullNext ==
  \/ \E k \in FullKeys : CSet(k, VerdictUsed, TtlValid)
  \/ \E k \in FullKeys : CGet(k)
  \/ \E k \in FullKeys : CDelete(k)
  \/ CClear
  \/ CCleanup
  \/ CTick

SpecCacheFull == Init /\ [][CacheFullNext]_vars

\* ----------------------------------------------- the limiter, call by call
\* The window of (ip, ep) after a check admitted at time t with reset r: a
\* window that has passed, or none yet, is followed by a new one.
GrantedAfter(g, t, r) ==
  IF g.n = 0 \/ t > g.reset
  THEN [reset |-> r, n |-> 1]
  ELSE [g EXCEPT !.n = @ + 1]

\* One request of route ep from ip goes through rateLimitMiddleware.
LCheck(ip, ep) ==
  LET res == RateLimitMiddleware(rl, ip, ep, now)
  IN /\ nChecks < MaxChecks
     /\ nChecks' = nChecks + 1
     /\ rl' = res.map
     /\ lastCheck' = [ip |-> ip, ep |-> ep, success |-> res.check.success,
                      remaining |-> res.check.remaining, reset |-> res.check.reset,
                      response |-> res.response]
     /\ granted' = IF res.check.success
                   THEN [granted EXCEPT ![ip][ep] = GrantedAfter(@, now, res.check.reset)]
                   ELSE granted
     /\ UNCHANGED <<now, cache, lastMut, everSet, lastGet, lastSweep>>
     /\ UNCHANGED appVars

LCleanup ==
  /\ rl' = RlCleanup(rl, now)
  /\ lastCheck' = NoCheck
  /\ UNCHANGED <<now, cache, lastMut, everSet, lastGet, lastSweep, granted, nChecks>>
  /\ UNCHANGED appVars

LTick ==
  /\ now + TickMs <= LimiterMaxTicks * TickMs
  /\ now' = now + TickMs
  /\ lastCheck' = NoCheck
  /\ UNCHANGED <<cache, rl, lastMut, everSet, lastGet, lastSweep, granted, nChecks>>
  /\ UNCHANGED appVars

LimiterNext ==
  \/ \E ip \in Ips, ep \in Endpoints : LCheck(ip, ep)
  \/ LCleanup
  \/ LTick

SpecLimiter == Init /\ [][LimiterNext]_vars

\* Submit requests of more clients than uniqueTokenPerInterval go through the
\* middleware.
CrowdNext ==
  \/ \E ip \in CrowdIps : LCheck(ip, "submit")
  \/ LCleanup
  \/ LTick

SpecCrowd == Init /\ [][CrowdNext]_vars

\* ---------------------------------------------------------- the two routes
\* ------------------------------------------------------- request bodies
\* A field of a JSON object: absent, a string, or a number (in tenths, so
\* that a fraction can be told from a whole number).
Missing == [type |-> "undefined", s |-> "", tenths |-> 0]
Str(s) == [type |-> "string", s |-> s, tenths |-> 0]
Num(tenths) == [type |-> "number", s |-> "", tenths |-> tenths]

Variants == {"flower", "papaya"}

\* What req.json() gives for a body that is not JSON (it throws), for the
\* JSON text null, and for the form's body for token `code` of a contest.
NotJson == [json |-> FALSE, object |-> FALSE]
JsonNull == [json |-> TRUE, object |-> FALSE]
FormBody(code, contest) ==
  [json |-> TRUE, object |-> TRUE,
   tokenCode |-> Str(code),
   contestType |-> Str(contest),
   fullName |-> Str("Nimal Perera"),
   contactNumber |-> Str("0771234567"),
   secretFlowerName |-> IF contest = "flower" THEN Str("Lotus") ELSE Missing,
   guess |-> IF contest = "papaya" THEN Num(4120) ELSE Missing]

\* The bodies requests are sent with, by name.
BodyOf(body, code) ==
  CASE body = "flower" -> FormBody(code, "flower")
    [] body = "papaya" -> FormBody(code, "papaya")
    [] body = "not-json" -> NotJson
    [] body = "json-null" -> JsonNull
    [] body = "no-token" -> [FormBody(code, "flower") EXCEPT !.tokenCode = Missing]
    [] body = "empty-token" -> [FormBody(code, "papaya") EXCEPT !.tokenCode = Str("")]
    [] body = "no-name" -> [FormBody(code, "papaya") EXCEPT !.fullName = Missing]
    [] body = "empty-name" -> [FormBody(code, "flower") EXCEPT !.fullName = Str("")]
    [] body = "no-contact" -> [FormBody(code, "flower") EXCEPT !.contactNumber = Missing]
    [] body = "empty-contact" -> [FormBody(code, "papaya") EXCEPT !.contactNumber = Str("")]
    [] body = "no-contest" -> [FormBody(code, "flower") EXCEPT !.contestType = Missing]
    [] body = "other-contest" -> [FormBody(code, "flower") EXCEPT !.contestType = Str("mango")]
    [] body = "empty-flower" -> [FormBody(code, "flower") EXCEPT !.secretFlowerName = Str("")]
    [] body = "no-flower" -> [FormBody(code, "flower") EXCEPT !.secretFlowerName = Missing]
    [] body = "no-guess" -> [FormBody(code, "papaya") EXCEPT !.guess = Missing]
    [] body = "guess-zero" -> [FormBody(code, "papaya") EXCEPT !.guess = Num(0)]
    [] body = "guess-negative" -> [FormBody(code, "papaya") EXCEPT !.guess = Num(-10)]
    [] body = "guess-fraction" -> [FormBody(code, "papaya") EXCEPT !.guess = Num(15)]
    [] body = "guess-string" -> [FormBody(code, "papaya") EXCEPT !.guess = Str("4120")]

AllBodies ==
  {"flower", "papaya", "not-json", "json-null", "no-token", "empty-token", "no-name",
   "empty-name", "no-contact", "empty-contact", "no-contest", "other-contest", "empty-flower", "no-flower",
   "no-guess", "guess-zero", "guess-negative", "guess-fraction", "guess-string"}

\* The bodies of the requests served beside the seed script.
Bodies == {"flower", "not-json", "no-token"}

\* z.string().min(1)
ZString1(f) == f.type = "string" /\ f.s # ""
\* z.literal(lit)
ZLiteral(f, lit) == f.type = "string" /\ f.s = lit
\* z.number().int().positive()
ZPositiveInt(f) == f.type = "number" /\ f.tenths % 10 = 0 /\ f.tenths > 0

\* The literal of the contest is not looked at.
SubmitSchema_AnyContest(contest, req) ==
  /\ req.object
  /\ ZString1(req.tokenCode)
  /\ ZString1(req.fullName)
  /\ ZString1(req.contactNumber)
  /\ IF contest = "flower" THEN ZString1(req.secretFlowerName) ELSE ZPositiveInt(req.guess)

\* submitSchema.safeParse(body).success, for the route of each contest.
SubmitSchema(contest, req) ==
  /\ req.object
  /\ ZString1(req.tokenCode)
  /\ ZLiteral(req.contestType, contest)
  /\ ZString1(req.fullName)
  /\ ZString1(req.contactNumber)
  /\ IF contest = "flower" THEN ZString1(req.secretFlowerName) ELSE ZPositiveInt(req.guess)

\* tokenSchema.safeParse(body).success
TokenSchema(req) == req.object /\ ZString1(req.tokenCode)

\* A catch block that does not log and go on, but hands the error on: the
\* route's last catch answers.
Swallowed_Rethrown(resp) ==
  [status |-> 500, message |-> "An error occurred during submission.",
   valid |-> FALSE, responseId |-> 0]

\* try { ... } catch (e) { console.error(...) }: the error is logged and the
\* route goes on to the response it was about to give.
Swallowed(resp) == resp

\* What a call of the request does: it works, or it throws.
StartFaults == {"none", "limiter", "get"}
StoreFaults == {"none", "uninit", "other"}
SetFaults == {"none", "set"}
UpdateFaults == {"none", "delete", "set"}

\* The client the requests come from.
AppIps == {"ip1"}

Resp(status, message) ==
  [status |-> status, message |-> message, valid |-> FALSE, responseId |-> 0]

\* The 429 response of rateLimitMiddleware.
TooMany == Resp(429, "Rate limit exceeded. Please try again later.")

InFlight(q) == procs[q].pc \notin {"idle", "done"}

\* The checks are made in the order of validate-token: used before not valid.
SubmitTokenCheck_UsedFirst(token) ==
  IF ~token.exists THEN "INVALID_TOKEN"
  ELSE IF token.is_used THEN "TOKEN_ALREADY_USED"
  ELSE IF ~token.is_valid THEN "TOKEN_NOT_VALID"
  ELSE "ok"

\* The status checks of the submit transaction, in the order of the code.
SubmitTokenCheck(token) ==
  IF ~token.exists THEN "INVALID_TOKEN"
  ELSE IF ~token.is_valid THEN "TOKEN_NOT_VALID"
  ELSE IF token.is_used THEN "TOKEN_ALREADY_USED"
  ELSE "ok"

\* A used token is answered 400 like the other refusals.
TxErrorResponse_UsedIs400(err) ==
  IF err = "INVALID_TOKEN" THEN Resp(400, MsgInvalid)
  ELSE IF err = "TOKEN_NOT_VALID" THEN Resp(400, MsgNotValid)
  ELSE IF err = "TOKEN_ALREADY_USED" THEN Resp(400, MsgUsed)
  ELSE IF err = "P2002" THEN Resp(409, "Error processing submission (duplicate).")
  ELSE Resp(500, "An error occurred during submission.")

\* catch (txError): the response for each error of the transaction.
TxErrorResponse(err) ==
  IF err = "INVALID_TOKEN" THEN Resp(400, MsgInvalid)
  ELSE IF err = "TOKEN_NOT_VALID" THEN Resp(400, MsgNotValid)
  ELSE IF err = "TOKEN_ALREADY_USED" THEN Resp(409, MsgUsed)
  ELSE IF err = "P2002" THEN Resp(409, "Error processing submission (duplicate).")
  ELSE IF err = "P2022" THEN Resp(500, "Database schema error - please contact support.")
  ELSE Resp(500, "An error occurred during submission.")

\* The insert goes through although a row of the token exists.
InsertOutcome_NoUniqueIndex(rows, pending, tokenId) == "ok"

\* INSERT into the response table under the unique index on token_id: a
\* committed row of the token is a unique violation (P2002); a row another
\* open transaction has inserted makes the insert wait for that transaction.
InsertOutcome(rows, pending, tokenId) ==
  IF \E r \in rows : r.token_id = tokenId THEN "P2002"
  ELSE IF tokenId \in pending THEN "wait"
  ELSE "ok"

\* The rows inserted by the open transactions of the other requests.
PendingInserts(p) ==
  {procs[q].code : q \in {r \in Procs \ {p} : procs[r].kind = "submit" /\ procs[r].pc = "update"}}

\* The update of the transaction is lost: the token stays unused.
TokenUpdate_NotMarked(tks, code) == tks

\* tx.token.update({ data: { is_used: true, used_at } })
TokenUpdate(tks, code) ==
  [tks EXCEPT ![code].is_used = TRUE, ![code].used_at = "timestamp"]

RowsOf(code) == {r \in responses : r.token_id = code}

\* A request arrives in slot p: its history starts.
Arrived(kind, code, pc) ==
  [IdleProc EXCEPT !.kind = kind, !.pc = pc, !.code = code, !.admitted = TRUE,
                   !.start = tokens[code],
                   !.afterOk = \E r \in RowsOf(code) : r.returned]

Refused(kind, resp) == [IdleProc EXCEPT !.kind = kind, !.pc = "done", !.resp = resp]

\* A response row without the history kept with it.
Row(r) == [id |-> r.id, token_id |-> r.token_id]

\* What a step of a request changed, added to what its earlier steps changed.
Wrote(w) ==
  w \cup (IF tokens' # tokens THEN {"tokens"} ELSE {})
    \cup (IF {Row(r) : r \in responses'} # {Row(r) : r \in responses} THEN {"responses"} ELSE {})
    \cup (IF cache' # cache THEN {"cache"} ELSE {})

\* The request of slot p goes on as rec.
Goes(p, rec) ==
  /\ procs' = [procs EXCEPT ![p] = [rec EXCEPT !.wrote = Wrote(@)]]
  /\ last' = IdleProc

\* The request of slot p returns its response: rec is its record at the end.
Returns(p, rec) ==
  /\ procs' = [procs EXCEPT ![p] = IdleProc]
  /\ last' = [rec EXCEPT !.pc = "done", !.unusedAtEnd = RowsOf(rec.code) = {},
                         !.wrote = Wrote(@)]

\* A request is taken by the first free slot.
FreeSlot(p) == ~InFlight(p) /\ \A q \in Procs : q < p => InFlight(q)

\* POST /api/submit, up to the start of the transaction: the limiter, the
\* JSON body, the schema.
SubmitStart(p, code, ip, body, fault, bound) ==
  LET mw == IF fault = "limiter"
            THEN [map |-> rl, response |-> NoResponse]
            ELSE RateLimitMiddleware(rl, ip, "submit", now)
      req == BodyOf(body, code)
      racing == {q \in Procs \ {p} :
                   procs[q].kind = "submit" /\ InFlight(q) /\ procs[q].code = code}
  IN /\ FreeSlot(p)
     /\ fault \in {"none", "limiter"}
     /\ nReq < bound
     /\ nReq' = nReq + 1
     /\ rl' = mw.map
     /\ UNCHANGED <<now, cache, tokens, responses, seed, neg, nTicks>>
     /\ UNCHANGED <<histVars, variant, formVars>>
     /\ IF mw.response.status = 429 THEN Returns(p, Refused("submit", TooMany))
        ELSE IF ~req.json
          THEN Returns(p, Refused("submit", Resp(400, "Invalid request format")))
        ELSE IF ~SubmitSchema(variant, req)
          THEN Returns(p, Refused("submit", Resp(400, "Invalid input")))
        ELSE /\ procs' = [q \in Procs |->
                  IF q = p THEN [Arrived("submit", code, "read") EXCEPT
                                   !.raced = racing # {},
                                   !.threw = IF fault = "none" THEN {} ELSE {fault}]
                  ELSE IF q \in racing THEN [procs[q] EXCEPT !.raced = TRUE]
                  ELSE procs[q]]
             /\ last' = IdleProc

\* The transaction reads the token and checks its status.
SubmitTxRead(p, fault) ==
  LET token == tokens[procs[p].code]
      err == SubmitTokenCheck(token)
      rec == [procs[p] EXCEPT !.snap = token, !.storeRead = TRUE]
  IN /\ procs[p].kind = "submit" /\ procs[p].pc = "read"
     /\ fault \in StoreFaults
     /\ UNCHANGED <<now, cache, rl, tokens, responses, seed, neg, nReq, nTicks>>
     /\ UNCHANGED <<histVars, variant, formVars>>
     /\ IF fault # "none"
        THEN Returns(p, [procs[p] EXCEPT !.storeFailed = fault,
                                         !.resp = TxErrorResponse(fault)])
        ELSE IF err = "ok"
        THEN Goes(p, [rec EXCEPT !.pc = "insert"])
        ELSE Returns(p, [rec EXCEPT !.resp = TxErrorResponse(err)])

\* The transaction inserts the response row.
SubmitTxInsert(p) ==
  LET o == InsertOutcome(responses, PendingInserts(p), procs[p].code)
  IN /\ procs[p].kind = "submit" /\ procs[p].pc = "insert"
     /\ o # "wait"
     /\ UNCHANGED <<now, cache, rl, tokens, responses, seed, neg, nReq, nTicks>>
     /\ UNCHANGED <<histVars, variant, formVars>>
     /\ IF o = "ok"
        THEN Goes(p, [procs[p] EXCEPT !.pc = "update"])
        ELSE Returns(p, [procs[p] EXCEPT !.resp = TxErrorResponse(o)])

\* The transaction marks the token used and commits: the row and the update
\* become visible together.
SubmitTxCommit(p) ==
  LET code == procs[p].code
      id == Cardinality(responses) + 1
  IN /\ procs[p].kind = "submit" /\ procs[p].pc = "update"
     /\ responses' = responses \cup
          {[id |-> id, token_id |-> code, returned |-> FALSE,
            \* history: the token was valid and unused when the row was committed
            tokenOk |-> tokens[code].exists /\ tokens[code].is_valid /\ ~tokens[code].is_used]}
     /\ tokens' = TokenUpdate(tokens, code)
     /\ UNCHANGED <<now, cache, rl, seed, neg, nReq, nTicks>>
     /\ UNCHANGED <<histVars, variant, formVars>>
     /\ Goes(p, [procs[p] EXCEPT !.pc = "committed", !.resp.responseId = id])

\* The negative entries known after a set made on cache c: none once the
\* cache is at its capacity.
NegAfterSet(c, n) == IF Len(c) >= MaxSize THEN [k \in Codes |-> NoNeg] ELSE n

\* The cache is left as it is after the commit.
CacheAfterSubmit_Untouched(c, key, t) == c

\* tokenCache.delete(cacheKey) and tokenCache.set(cacheKey, <used>, 10 * 60000)
CacheAfterSubmit(c, key, t) ==
  CacheSet(CacheDelete(c, key), key, VerdictUsed, TtlSubmitted, t)

\* After the commit: the cache entry of the token is replaced and 200 returned.
\* When delete throws, set is not called; when set throws, the entry is gone.
\* The entry a validation's miss left for the code is gone with it.
SubmitFinish(p, fault) ==
  LET code == procs[p].code
      key == CacheKey(code)
      ok == [status |-> 200, message |-> "Submission successful!",
             valid |-> FALSE, responseId |-> procs[p].resp.responseId]
  IN /\ procs[p].kind = "submit" /\ procs[p].pc = "committed"
     /\ fault \in UpdateFaults
     /\ cache' = IF fault = "delete" THEN cache
                 ELSE IF fault = "set" THEN CacheDelete(cache, key)
                 ELSE CacheAfterSubmit(cache, key, now)
     /\ neg' = NegAfterSet(cache', [neg EXCEPT ![code] = NoNeg])
     /\ responses' = {IF r.id = procs[p].resp.responseId THEN [r EXCEPT !.returned = TRUE] ELSE r
                        : r \in responses}
     /\ UNCHANGED <<now, rl, tokens, seed, nReq, nTicks>>
     /\ UNCHANGED <<histVars, variant, formVars>>
     /\ Returns(p, [procs[p] EXCEPT
                      !.threw = IF fault = "none" THEN @ ELSE @ \cup {fault},
                      !.resp = IF fault = "none" THEN ok ELSE Swallowed(ok)])

\* 'Not valid' is looked at before 'used'.
ValidateVerdict_NotValidFirst(token) ==
  IF ~token.exists THEN VerdictInvalid
  ELSE IF ~token.is_valid THEN VerdictNotValid
  ELSE IF token.is_used THEN VerdictUsed
  ELSE VerdictValid

\* The verdict of validate-token for the token it read.
ValidateVerdict(token) ==
  IF ~token.exists THEN VerdictInvalid
  ELSE IF token.is_used THEN VerdictUsed
  ELSE IF ~token.is_valid THEN VerdictNotValid
  ELSE VerdictValid

\* The TTL the verdict is cached with.
ValidateTtl(token) ==
  IF ~token.exists THEN TtlNotFound
  ELSE IF token.is_used THEN TtlNegative
  ELSE IF ~token.is_valid THEN TtlNegative
  ELSE TtlValid

\* The TTL the negative verdict v is cached with, as documented: 30 s for an
\* unknown code, 5 min for a used or not valid token.
DocumentedTtl(v) == IF v = VerdictInvalid THEN 30000 ELSE 5 * 60000

\* What the negative entry n lets a validation arriving at time t expect.
Expectation(n, t) ==
  IF n = NoNeg THEN "none"
  ELSE IF t <= n.at + DocumentedTtl(n.verdict) THEN "hit"
  ELSE "miss"

\* POST /api/validate-token up to the store read: the limiter, the JSON body,
\* the schema, the cache lookup.
ValidateStart(p, code, ip, body, fault, bound) ==
  LET mw == IF fault = "limiter"
            THEN [map |-> rl, response |-> NoResponse]
            ELSE RateLimitMiddleware(rl, ip, "validate", now)
      req == BodyOf(body, code)
      key == CacheKey(code)
      cached == IF fault = "get" THEN Undefined ELSE CacheGetValue(cache, key, now)
      arrived == [Arrived("validate", code, "read") EXCEPT
                    !.expect = Expectation(neg[code], now),
                    !.expectVerdict = neg[code].verdict,
                    !.threw = IF fault = "none" THEN {} ELSE {fault}]
  IN /\ FreeSlot(p)
     /\ fault \in StartFaults
     /\ nReq < bound
     /\ nReq' = nReq + 1
     /\ rl' = mw.map
     /\ UNCHANGED <<now, tokens, responses, seed, neg, nTicks>>
     /\ UNCHANGED <<histVars, variant, formVars>>
     /\ IF mw.response.status = 429
        THEN /\ cache' = cache
             /\ Returns(p, Refused("validate", TooMany))
        ELSE IF ~req.json
        THEN /\ cache' = cache
             /\ Returns(p, Refused("validate", Resp(400, "Invalid request format")))
        ELSE IF ~TokenSchema(req)
        THEN /\ cache' = cache
             /\ Returns(p, Refused("validate", Resp(400, "Invalid input")))
        ELSE /\ cache' = IF fault = "get" THEN cache ELSE CacheAfterGet(cache, key, now)
             /\ IF cached # Undefined
                THEN Returns(p, [arrived EXCEPT !.resp = [status |-> 200,
                                                          message |-> cached.message,
                                                          valid |-> cached.valid,
                                                          responseId |-> 0]])
                ELSE Goes(p, arrived)

\* Every failure of the store is answered 500.
DbErrorResponse_Always500(fault) ==
  [status |-> 500, message |-> "Database error occurred", valid |-> FALSE, responseId |-> 0]

\* catch (dbError): 503 when the message says 'Prisma Client not
\* initialized', 500 otherwise.
DbErrorResponse(fault) ==
  IF fault = "uninit"
  THEN [status |-> 503, message |-> "Database connection error. Please try again later.",
        valid |-> FALSE, responseId |-> 0]
  ELSE [status |-> 500, message |-> "Database error occurred", valid |-> FALSE,
        responseId |-> 0]

\* The Token rows if the route asked for the row with an upsert.
TokenFindUnique_Upsert(t, code) ==
  [t EXCEPT ![code] = IF @.exists THEN @ ELSE SeededToken]

\* The Token rows after prisma.token.findUnique: a read leaves them alone.
TokenFindUnique(t, code) == t

\* prisma.token.findUnique: the store answers, or the call throws.
ValidateRead(p, fault) ==
  /\ procs[p].kind = "validate" /\ procs[p].pc = "read"
  /\ fault \in StoreFaults
  /\ tokens' = IF fault = "none" THEN TokenFindUnique(tokens, procs[p].code) ELSE tokens
  /\ UNCHANGED <<now, cache, rl, responses, seed, neg, nReq, nTicks>>
  /\ UNCHANGED <<histVars, variant, formVars>>
  /\ IF fault = "none"
     THEN Goes(p, [procs[p] EXCEPT !.pc = "backfill", !.snap = tokens[procs[p].code],
                                   !.storeRead = TRUE])
     ELSE Returns(p, [procs[p] EXCEPT !.storeFailed = fault, !.resp = DbErrorResponse(fault)])

\* The route goes on with the token it read: the verdict is cached and returned.
ValidateFinish(p, fault) ==
  LET code == procs[p].code
      verdict == ValidateVerdict(procs[p].snap)
      ok == [status |-> 200, message |-> verdict.message, valid |-> verdict.valid,
             responseId |-> 0]
  IN /\ procs[p].kind = "validate" /\ procs[p].pc = "backfill"
     /\ fault \in SetFaults
     /\ cache' = IF fault = "set" THEN cache
                 ELSE CacheSet(cache, CacheKey(code), verdict, ValidateTtl(procs[p].snap), now)
     /\ neg' = IF fault = "set" THEN neg
               ELSE NegAfterSet(cache',
                      IF verdict.valid THEN neg
                      ELSE [neg EXCEPT ![code] = [verdict |-> verdict, at |-> now]])
     /\ UNCHANGED <<now, rl, tokens, responses, seed, nReq, nTicks>>
     /\ UNCHANGED <<histVars, variant, formVars>>
     /\ Returns(p, [procs[p] EXCEPT
                      !.threw = IF fault = "none" THEN @ ELSE @ \cup {fault},
                      !.resp = IF fault = "none" THEN ok ELSE Swallowed(ok)])

\* ----------------------------------------------------------- the seed script
\* The create overwrites the row of a code that exists.
TokenCreate_Overwrites(tks, code) == [tks EXCEPT ![code] = SeededToken]

\* prisma.token.create inside try / catch: the unique index on token_code
\* refuses a code that exists, and the loop goes on.
TokenCreate(tks, code) ==
  IF tks[code].exists THEN tks ELSE [tks EXCEPT ![code] = SeededToken]

\* An error of create ends the loop.
SeedRest_Uncaught(todo, failed) == IF failed THEN << >> ELSE Tail(todo)

\* for (const tokenData of tokensToCreate) { try { create } catch { log } }:
\* what is left to create after a turn of the loop, failed or not.
SeedRest(todo, failed) == Tail(todo)

\* Steps 1 to 3 of main: the file is read, the existing codes are looked up
\* and filtered out.
SeedRead(bound) ==
  /\ seed.pc = "idle"
  /\ seed.runs < bound
  /\ LET todo == SelectSeq(TokenFile, LAMBDA c : ~tokens[c].exists)
     IN seed' = [pc |-> IF todo = << >> THEN "idle" ELSE "create",
                 todo |-> todo, runs |-> seed.runs + 1,
                 createdCount |-> 0, failedCount |-> 0]
  /\ last' = IdleProc
  /\ UNCHANGED <<now, cache, rl, tokens, responses, procs, neg, nReq, nTicks>>
  /\ UNCHANGED <<histVars, variant, formVars>>

\* Step 4 of main, one turn of the loop.
SeedCreate ==
  /\ seed.pc = "create"
  /\ tokens' = TokenCreate(tokens, Head(seed.todo))
  /\ LET failed == tokens[Head(seed.todo)].exists
         rest == SeedRest(seed.todo, failed)
     IN seed' = [seed EXCEPT !.todo = rest,
                             !.pc = IF rest = << >> THEN "idle" ELSE "create",
                             !.createdCount = IF failed THEN @ ELSE @ + 1,
                             !.failedCount = IF failed THEN @ + 1 ELSE @]
  /\ last' = IdleProc
  /\ UNCHANGED <<now, cache, rl, responses, procs, neg, nReq, nTicks>>
  /\ UNCHANGED <<histVars, variant, formVars>>

\* ------------------------------------------------------ time and the timers
\* The clock steps to the expiry of a short or of a long entry, or past both.
TickSteps == {TtlNotFound, TtlNegative, TtlNegative + TtlNotFound}

Tick(d) ==
  /\ nTicks < MaxTicks
  /\ nTicks' = nTicks + 1
  /\ now' = now + d
  /\ last' = IdleProc
  /\ UNCHANGED <<cache, rl, tokens, responses, procs, seed, neg, nReq>>
  /\ UNCHANGED <<histVars, variant, formVars>>

\* setInterval(() => this.cleanup(), 60000) of the cache
CacheSweep ==
  /\ cache' = CacheCleanup(cache, now)
  /\ last' = IdleProc
  /\ UNCHANGED <<now, rl, tokens, responses, procs, seed, neg, nReq, nTicks>>
  /\ UNCHANGED <<histVars, variant, formVars>>

\* setInterval of rateLimit
LimiterSweep ==
  /\ rl' = RlCleanup(rl, now)
  /\ last' = IdleProc
  /\ UNCHANGED <<now, cache, tokens, responses, procs, seed, neg, nReq, nTicks>>
  /\ UNCHANGED <<histVars, variant, formVars>>

\* Two requests at a time, for any code, while the seed script may run.
ServeSlots == 1..(NumProcs - 1)

Next ==
  \/ \E p \in ServeSlots, code \in Codes, ip \in AppIps, body \in Bodies :
        SubmitStart(p, code, ip, body, "none", MaxRequests)
  \/ \E p \in Procs : SubmitTxRead(p, "none")
  \/ \E p \in Procs : SubmitTxInsert(p)
  \/ \E p \in Procs : SubmitTxCommit(p)
  \/ \E p \in Procs : SubmitFinish(p, "none")
  \/ \E p \in ServeSlots, code \in Codes, ip \in AppIps, body \in Bodies :
        ValidateStart(p, code, ip, body, "none", MaxRequests)
  \/ \E p \in Procs : ValidateRead(p, "none")
  \/ \E p \in Procs : ValidateFinish(p, "none")
  \/ SeedRead(MaxSeedRuns)
  \/ SeedCreate
  \/ \E d \in TickSteps : Tick(d)
  \/ CacheSweep
  \/ LimiterSweep

Spec == ServeInit /\ [][Next]_vars

\* Well-formed requests for the seeded token A, NumProcs at a time, while no
\* seed script runs.
OneTokenNext ==
  \/ \E p \in Procs : SubmitStart(p, "A", "ip1", "flower", "none", MaxRequests + 1)
  \/ \E p \in Procs : SubmitTxRead(p, "none")
  \/ \E p \in Procs : SubmitTxInsert(p)
  \/ \E p \in Procs : SubmitTxCommit(p)
  \/ \E p \in Procs : SubmitFinish(p, "none")
  \/ \E p \in Procs : ValidateStart(p, "A", "ip1", "flower", "none", MaxRequests + 1)
  \/ \E p \in Procs : ValidateRead(p, "none")
  \/ \E p \in Procs : ValidateFinish(p, "none")
  \/ \E d \in TickSteps : Tick(d)
  \/ CacheSweep
  \/ LimiterSweep

\* The Token row of A starts in any state a Token row can be in: absent,
\* seeded, marked not valid by an administrator, used (with the response row
\* of that submission), or used and then marked not valid.
UsedToken == [SeededToken EXCEPT !.is_used = TRUE, !.used_at = "timestamp"]
UsedRevokedToken == [UsedToken EXCEPT !.is_valid = FALSE]
TokenStates == {NoToken, SeededToken, RevokedToken, UsedToken, UsedRevokedToken}

OneTokenInit ==
  /\ UnitInit
  /\ \E t \in TokenStates :
       /\ tokens = [c \in Codes |->
                      IF c = "A" THEN t ELSE IF c = "B" THEN RevokedToken ELSE NoToken]
       /\ responses = IF t.is_used
                      THEN {[id |-> 1, token_id |-> "A", returned |-> TRUE, tokenOk |-> TRUE]}
                      ELSE {}
  /\ procs = [p \in Procs |-> IdleProc]
  /\ last = IdleProc
  /\ seed = [pc |-> "idle", todo |-> << >>, runs |-> 0, createdCount |-> 0, failedCount |-> 0]
  /\ neg = [c \in Codes |-> NoNeg]
  /\ variant = "flower"
  /\ FormsIdle
  /\ nReq = 0
  /\ nTicks = 0

SpecOneToken == OneTokenInit /\ [][OneTokenNext]_vars

\* One request at a time, for the route of either contest; Token rows change
\* through submit alone.  B is not valid, used or not.
SequentialInit ==
  /\ UnitInit
  /\ \E b \in {RevokedToken, UsedRevokedToken} :
       /\ tokens = [c \in Codes |->
                      IF c = "A" THEN SeededToken ELSE IF c = "B" THEN b ELSE NoToken]
       /\ responses = IF b.is_used
                      THEN {[id |-> 1, token_id |-> "B", returned |-> TRUE, tokenOk |-> TRUE]}
                      ELSE {}
  /\ procs = [p \in Procs |-> IdleProc]
  /\ last = IdleProc
  /\ seed = [pc |-> "idle", todo |-> << >>, runs |-> 0, createdCount |-> 0, failedCount |-> 0]
  /\ neg = [c \in Codes |-> NoNeg]
  /\ variant \in Variants
  /\ FormsIdle
  /\ nReq = 0
  /\ nTicks = 0

SequentialNext ==
  \/ \E code \in Codes, body \in Variants \cup {"not-json"} :
        SubmitStart(1, code, "ip1", body, "none", MaxRequests + 1)
  \/ SubmitTxRead(1, "none")
  \/ SubmitTxInsert(1)
  \/ SubmitTxCommit(1)
  \/ SubmitFinish(1, "none")
  \/ \E code \in Codes, body \in Variants \cup {"not-json"} :
        ValidateStart(1, code, "ip1", body, "none", MaxRequests + 1)
  \/ ValidateRead(1, "none")
  \/ ValidateFinish(1, "none")
  \/ \E d \in TickSteps : Tick(d)
  \/ CacheSweep
  \/ LimiterSweep

SpecSequential == SequentialInit /\ [][SequentialNext]_vars

\* One request at a time for token A, with any body.
BodiesNext ==
  \/ \E body \in AllBodies : SubmitStart(1, "A", "ip1", body, "none", MaxRequests)
  \/ SubmitTxRead(1, "none")
  \/ SubmitTxInsert(1)
  \/ SubmitTxCommit(1)
  \/ SubmitFinish(1, "none")
  \/ \E body \in AllBodies : ValidateStart(1, "A", "ip1", body, "none", MaxRequests)
  \/ ValidateRead(1, "none")
  \/ ValidateFinish(1, "none")
  \/ \E d \in TickSteps : Tick(d)
  \/ CacheSweep
  \/ LimiterSweep

SpecBodies == SequentialInit /\ [][BodiesNext]_vars

\* One request at a time, while any call of the limiter, of the cache and of
\* the store may throw.
FaultsNext ==
  \/ \E code \in Codes, fault \in StartFaults :
        SubmitStart(1, code, "ip1", "flower", fault, MaxRequests + 1)
  \/ \E fault \in StoreFaults : SubmitTxRead(1, fault)
  \/ SubmitTxInsert(1)
  \/ SubmitTxCommit(1)
  \/ \E fault \in UpdateFaults : SubmitFinish(1, fault)
  \/ \E code \in Codes, fault \in StartFaults :
        ValidateStart(1, code, "ip1", "flower", fault, MaxRequests + 1)
  \/ \E fault \in StoreFaults : ValidateRead(1, fault)
  \/ \E fault \in SetFaults : ValidateFinish(1, fault)
  \/ \E d \in TickSteps : Tick(d)
  \/ CacheSweep
  \/ LimiterSweep

SpecFaults == ServeInit /\ [][FaultsNext]_vars

\* Two requests at a time, for any code, while the store read and the cache
\* update of a submit may throw.
RefusalsNext ==
  \/ \E p \in ServeSlots, code \in Codes, body \in {"flower", "not-json"} :
        SubmitStart(p, code, "ip1", body, "none", MaxRequests)
  \/ \E p \in ServeSlots, fault \in StoreFaults : SubmitTxRead(p, fault)
  \/ \E p \in ServeSlots : SubmitTxInsert(p)
  \/ \E p \in ServeSlots : SubmitTxCommit(p)
  \/ \E p \in ServeSlots, fault \in UpdateFaults : SubmitFinish(p, fault)
  \/ \E p \in ServeSlots, code \in Codes :
        ValidateStart(p, code, "ip1", "flower", "none", MaxRequests)
  \/ \E p \in ServeSlots : ValidateRead(p, "none")
  \/ \E p \in ServeSlots : ValidateFinish(p, "none")

SpecRefusals == ServeInit /\ [][RefusalsNext]_vars

\* The seed script is run SeedRuns times, one run after the other, while
\* submissions are served; the Token row of A starts in any state.
SeedRuns == 3

SeedNext ==
  \/ SeedRead(SeedRuns)
  \/ SeedCreate
  \/ \E code \in Codes : SubmitStart(1, code, "ip1", "flower", "none", MaxRequests)
  \/ SubmitTxRead(1, "none")
  \/ SubmitTxInsert(1)
  \/ SubmitTxCommit(1)
  \/ SubmitFinish(1, "none")

SpecSeed == OneTokenInit /\ [][SeedNext]_vars

\* ------------------------------------------------- the forms, event by event
serverVars == <<cache, rl, lastMut, everSet, lastGet, lastSweep, granted, lastCheck, nChecks,
                tokens, responses, procs, last, seed, neg, variant, nReq, nTicks>>

Timer(due, kind, id) == [due |-> due, kind |-> kind, id |-> id]

\* No timer is set after a failure.
StopLoadingLater_Never(timers, t, delay) == timers

\* if (!success) { setTimeout(() => setIsLoading(false), delay) }
StopLoadingLater(timers, t, delay) == timers \cup {Timer(t + delay, "loading", 0)}

\* disabled={isLoading || isValidating} of the input and of the button
TokenDisabled == tokenForm.isLoading \/ tokenForm.isValidating
\* disabled={isLoading || isSubmitting}
GuessDisabled == guessForm.isLoading \/ guessForm.isSubmitting

\* onChange of the token field: setToken(e.target.value.toUpperCase())
TokenType(v) ==
  /\ router.page = "/" /\ ~TokenDisabled
  /\ tokenForm.token # ToUpperCase(v)
  /\ tokenForm' = [tokenForm EXCEPT !.token = ToUpperCase(v)]
  /\ UNCHANGED <<now, router, guessForm, serverVars>>

\* The message TokenForm shows for a response that is OK and not valid.
TokenRefusalError(message) ==
  IF message = MsgUsed THEN "tokenUsed"
  ELSE IF message = MsgNotValid THEN "tokenNotValid"
  ELSE "invalidToken"

\* handleSubmit of TokenForm up to its await, and beyond it when the
\* throttle lets no call through (validateTokenWithAPI returns undefined).
TokenHandleSubmit ==
  LET f == tokenForm
      warn == IF f.showHighTrafficWarning /\ f.retryCount > 0
              THEN {Timer(now + WarningMs, "warning", 0)} ELSE {}
      trimmed == Join(Trim(f.token))
      id == f.sent + 1
  IN /\ router.page = "/" /\ ~TokenDisabled
     /\ f.submits < FormMaxSubmits
     /\ tokenForm' =
          IF trimmed = ""
          THEN [f EXCEPT !.submits = @ + 1, !.error = "tokenRequired", !.timers = @ \cup warn,
                         !.done = [NoDone EXCEPT !.why = "empty", !.error = "tokenRequired",
                                                 !.entered = f.token]]
          ELSE IF ThrottlePasses(f.lastCall, now, TokenThrottleMs)
          THEN [f EXCEPT !.submits = @ + 1, !.error = "null",
                         !.isLoading = TRUE, !.isValidating = TRUE,
                         !.lastCall = now, !.fetching = TRUE, !.sent = id,
                         !.req = [id |-> id, tokenCode |-> trimmed, entered |-> f.token],
                         !.timers = @ \cup warn \cup {Timer(now + TokenAbortMs, "abort", id)},
                         !.done = NoDone]
          ELSE [f EXCEPT !.submits = @ + 1, !.error = "null", !.isLoading = TRUE,
                         !.timers = StopLoadingLater(@ \cup warn, now, TokenLoadingMs),
                         !.done = [NoDone EXCEPT !.why = "throttled", !.entered = f.token]]
     /\ UNCHANGED <<now, router, guessForm, serverVars>>

\* The token is taken for valid whenever the response is OK.
TokenAccepted_AnyOk(o) == ResponseOk(o)

\* validateTokenWithAPI returns true: the response is not 429, is OK and
\* says valid.
TokenAccepted(o) == o.type = "response" /\ o.status # 429 /\ ResponseOk(o) /\ o.valid

\* fetch of TokenForm settles with outcome o: the rest of
\* validateTokenWithAPI and of handleSubmit.  A timer that has no effect any
\* more is left out.
TokenFetchSettles(o) ==
  LET f == tokenForm
      success == TokenAccepted(o)
      error == IF o.type = "network" THEN "networkError"
               ELSE IF o.status = 429 THEN "tooManyRequests"
               ELSE IF ~ResponseOk(o) THEN "submissionError"
               ELSE IF ~success THEN TokenRefusalError(o.message)
               ELSE f.error
      left == {tm \in f.timers : ~(tm.kind = "abort" /\ tm.id = f.req.id)}
  IN /\ router.page = "/" /\ f.fetching
     /\ tokenForm' =
          [f EXCEPT !.fetching = FALSE, !.isValidating = FALSE, !.error = error,
                    !.retryCount = IF o.type = "response" /\ o.status = 429 THEN @ + 1 ELSE @,
                    !.showHighTrafficWarning =
                        IF o.type = "response" /\ o.status = 429 THEN TRUE ELSE @,
                    !.timers = IF success THEN {}
                               ELSE StopLoadingLater(left, now, TokenLoadingMs),
                    !.done = [why |-> "response", outcome |-> o, pushed |-> success,
                              error |-> error, tokenCode |-> f.req.tokenCode,
                              entered |-> f.req.entered]]
     /\ router' = IF success
                  THEN Url("/submit-guess", EncodeURIComponent(Trim(f.req.entered)))
                  ELSE router
     /\ UNCHANGED <<now, guessForm, serverVars>>

\* A timer of TokenForm fires: the abort of the request, the end of the
\* loading state, the end of the high traffic warning.
TokenTimerFires(tm) ==
  LET f == tokenForm
      left == f.timers \ {tm}
  IN /\ router.page = "/"
     /\ tm \in f.timers /\ tm.due <= now
     /\ tokenForm' =
          IF tm.kind = "abort"
          THEN IF f.fetching /\ f.req.id = tm.id
               THEN [f EXCEPT !.fetching = FALSE, !.isValidating = FALSE,
                              !.error = "requestTimeout", !.showHighTrafficWarning = TRUE,
                              !.timers = StopLoadingLater(left, now, TokenLoadingMs),
                              !.done = [NoDone EXCEPT !.why = "timeout",
                                                      !.error = "requestTimeout",
                                                      !.tokenCode = f.req.tokenCode,
                                                      !.entered = f.req.entered]]
               ELSE [f EXCEPT !.timers = left]
          ELSE IF tm.kind = "loading"
          THEN [f EXCEPT !.isLoading = FALSE, !.timers = left]
          ELSE [f EXCEPT !.showHighTrafficWarning = FALSE, !.timers = left]
     /\ UNCHANGED <<now, router, guessForm, serverVars>>

\* The effect of GuessForm reads the token parameter of the URL.
GuessMount ==
  LET t == IF router.token = NoParam THEN NoParam ELSE DecodeURIComponent(router.token)
      missing == t = NoParam \/ t = << >>
  IN /\ router.page = "/submit-guess" /\ ~guessForm.mounted
     /\ guessForm' = [guessForm EXCEPT !.mounted = TRUE,
                                       !.token = IF missing THEN NoParam ELSE t,
                                       !.error = IF missing THEN "tokenMissing" ELSE @]
     /\ UNCHANGED <<now, router, tokenForm, serverVars>>

\* The form of GuessForm is rendered: the token is there.
GuessShown ==
  /\ router.page = "/submit-guess" /\ guessForm.mounted
  /\ guessForm.token # NoParam /\ guessForm.error # "tokenMissing"

\* onChange of a field of GuessForm
GuessType(field, v) ==
  /\ GuessShown /\ ~GuessDisabled
  /\ guessForm[field] # v
  /\ guessForm' = [guessForm EXCEPT ![field] = v]
  /\ UNCHANGED <<now, router, tokenForm, serverVars>>

\* The first client-side check of handleSubmit that fails, "null" when none.
GuessValidation(f) ==
  IF f.token = NoParam THEN "tokenMissing"
  ELSE IF Trim(f.fullName) = << >> THEN "nameRequired"
  ELSE IF Trim(f.contactNumber) = << >> THEN "contactRequired"
  ELSE IF Trim(f.flowerNameGuess) = << >> THEN "guessRequiredFlower"
  ELSE "null"

\* lastCall of the throttle a call of submitToApi goes through: submitToApi
\* makes its throttle anew at every call (let lastCall = 0).
GuessLastCall(calls) == 0

\* handleSubmit of GuessForm up to the await of fetch, and beyond it when a
\* check fails or the throttle lets no call through.
GuessHandleSubmit ==
  LET f == guessForm
      invalid == GuessValidation(f)
      id == f.sent + 1
  IN /\ GuessShown /\ ~GuessDisabled
     /\ f.submits < FormMaxSubmits
     /\ guessForm' =
          IF invalid # "null"
          THEN [f EXCEPT !.submits = @ + 1, !.error = invalid, !.isLoading = FALSE,
                         !.failed = TRUE]
          ELSE IF ThrottlePasses(GuessLastCall(f.calls), now, GuessThrottleMs)
          THEN [f EXCEPT !.submits = @ + 1, !.error = "null",
                         !.isLoading = TRUE, !.isSubmitting = TRUE,
                         !.fetching = TRUE, !.sent = id,
                         !.req = [id |-> id, tokenCode |-> Join(f.token), entered |-> f.token],
                         !.timers = @ \cup {Timer(now + GuessAbortMs, "abort", id)},
                         !.calls = Append(@, [at |-> now, sent |-> TRUE, result |-> "pending"]),
                         !.failed = FALSE]
          ELSE [f EXCEPT !.submits = @ + 1, !.error = "null", !.isLoading = TRUE,
                         !.timers = StopLoadingLater(@, now, GuessLoadingMs),
                         !.calls = Append(@, [at |-> now, sent |-> FALSE, result |-> "false"]),
                         !.failed = TRUE]
     /\ UNCHANGED <<now, router, tokenForm, serverVars>>

\* fetch of GuessForm settles with outcome o: the rest of submitToApi and of
\* handleSubmit.  A timer that has no effect any more is left out.
GuessFetchSettles(o) ==
  LET f == guessForm
      success == ResponseOk(o)
      error == IF o.type = "network" THEN "networkError"
               ELSE IF ResponseOk(o) THEN f.error
               ELSE IF o.status = 429 THEN "tooManyRequests"
               ELSE IF o.message # "" THEN o.message
               ELSE "submissionError"
      left == {tm \in f.timers : ~(tm.kind = "abort" /\ tm.id = f.req.id)}
  IN /\ GuessShown /\ f.fetching
     /\ guessForm' =
          [f EXCEPT !.fetching = FALSE, !.isSubmitting = FALSE, !.error = error,
                    !.retryCount = IF o.type = "response" /\ o.status = 429 THEN @ + 1 ELSE @,
                    !.timers = IF success THEN {}
                               ELSE StopLoadingLater(left, now, GuessLoadingMs),
                    !.calls[Len(f.calls)].result = IF success THEN "true" ELSE "false",
                    !.failed = ~success]
     /\ router' = IF success THEN Url("/confirmation", NoParam) ELSE router
     /\ UNCHANGED <<now, tokenForm, serverVars>>

\* A timer of GuessForm fires: AbortSignal.timeout rejects fetch with a
\* TimeoutError, which the catch block reports as a network error; or the
\* loading state ends.
GuessTimerFires(tm) ==
  LET f == guessForm
      left == f.timers \ {tm}
  IN /\ GuessShown
     /\ tm \in f.timers /\ tm.due <= now
     /\ guessForm' =
          IF tm.kind = "abort"
          THEN IF f.fetching /\ f.req.id = tm.id
               THEN [f EXCEPT !.fetching = FALSE, !.isSubmitting = FALSE,
                              !.error = "networkError",
                              !.timers = StopLoadingLater(left, now, GuessLoadingMs),
                              !.calls[Len(f.calls)].result = "false",
                              !.failed = TRUE]
               ELSE [f EXCEPT !.timers = left]
          ELSE [f EXCEPT !.isLoading = FALSE, !.timers = left]
     /\ UNCHANGED <<now, router, tokenForm, serverVars>>

\* The timers of the form on the page.
FormTimers ==
  IF router.page = "/" THEN tokenForm.timers
  ELSE IF router.page = "/submit-guess" THEN guessForm.timers
  ELSE {}

\* The clock steps by d; a timer fires when it is due.
FormTick(d) ==
  /\ nTicks < FormMaxTicks
  /\ \A tm \in FormTimers : now + d <= tm.due
  /\ now' = now + d
  /\ nTicks' = nTicks + 1
  /\ UNCHANGED <<cache, rl, histVars, tokens, responses, procs, last, seed, neg, variant,
                 nReq, formVars>>

\* The clock reaches the time the next timer is due.
FormTickToDue ==
  /\ FormTimers # {}
  /\ \A tm \in FormTimers : tm.due > now
  /\ now' = (CHOOSE tm \in FormTimers : \A other \in FormTimers : tm.due <= other.due).due
  /\ UNCHANGED <<cache, rl, histVars, tokens, responses, procs, last, seed, neg, variant,
                 nReq, nTicks, formVars>>

\* The page the browser is opened on: the token form, or the guess form with
\* no token, an empty one or one with an escaped blank in its URL.
FormsInit ==
  /\ now = PageLoadTime
  /\ cache = << >>
  /\ rl = << >>
  /\ lastMut = NoMut
  /\ everSet = {}
  /\ lastGet = NoGet
  /\ lastSweep = NoSweep
  /\ granted = [ip \in CrowdIps |-> [ep \in Endpoints |-> NoWindow]]
  /\ lastCheck = NoCheck
  /\ nChecks = 0
  /\ tokens = [c \in Codes |-> IF c = "A" THEN SeededToken ELSE NoToken]
  /\ responses = {}
  /\ procs = [p \in Procs |-> IdleProc]
  /\ last = IdleProc
  /\ seed = [pc |-> "idle", todo |-> << >>, runs |-> 0, createdCount |-> 0, failedCount |-> 0]
  /\ neg = [c \in Codes |-> NoNeg]
  /\ variant = "flower"
  /\ nReq = 0
  /\ nTicks = 0
  /\ router \in {Url("/", NoParam), Url("/submit-guess", NoParam), Url("/submit-guess", << >>),
                 Url("/submit-guess", <<"A", "%", "2", "0", "B">>)}
  /\ tokenForm = NewTokenForm
  /\ guessForm = NewGuessForm

FormsNext ==
  \/ \E v \in TokenInputs : TokenType(v)
  \/ TokenHandleSubmit
  \/ \E o \in ValidateOutcomes : TokenFetchSettles(o)
  \/ \E tm \in tokenForm.timers : TokenTimerFires(tm)
  \/ GuessMount
  \/ \E field \in GuessFields, v \in GuessInputs : GuessType(field, v)
  \/ GuessHandleSubmit
  \/ \E o \in SubmitOutcomes : GuessFetchSettles(o)
  \/ \E tm \in guessForm.timers : GuessTimerFires(tm)
  \/ \E d \in FormSteps : FormTick(d)
  \/ FormTickToDue

SpecForms == FormsInit /\ [][FormsNext]_vars

\* Time goes on and a timer that is due fires.
FairSpecForms ==
  /\ SpecForms
  /\ WF_vars(FormTickToDue)
  /\ WF_vars(\E tm \in tokenForm.timers : TokenTimerFires(tm))
  /\ WF_vars(\E tm \in guessForm.timers : GuessTimerFires(tm))

\* ------------------------------------------------------------------ claims
Fresh(token) == token.exists /\ token.is_valid /\ ~token.is_used

\* The request that has just returned was a well-formed, admitted request of
\* the route.
Returned(kind) == last.pc = "done" /\ last.kind = kind /\ last.admitted

MsgDuplicate == "Error processing submission (duplicate)."

\* C1: of the submit requests for a token that was valid and unused, run in
\* any interleaving, at most one is answered 200; one that is not answered 200
\* is answered 409, and then only because the row of another submission of
\* the token is committed; and a committed row is answered 200 by the request
\* that committed it.
C1_ExactlyOneSuccess ==
  /\ \A c \in Codes : Cardinality({r \in RowsOf(c) : r.returned}) <= 1
  /\ (Returned("submit") /\ Fresh(last.start)) =>
        /\ last.resp.status \in {200, 409}
        /\ last.resp.status = 409 =>
              /\ last.resp.message \in {MsgUsed, MsgDuplicate}
              /\ \E r \in RowsOf(last.code) : r.id # last.resp.responseId
        /\ last.resp.status = 200 =>
              \E r \in RowsOf(last.code) : r.id = last.resp.responseId /\ r.returned
  /\ \A r \in responses :
        \/ r.returned
        \/ \E p \in Procs : /\ procs[p].pc = "committed"
                             /\ procs[p].code = r.token_id
                             /\ procs[p].resp.responseId = r.id

\* Of two submissions of a valid, unused token that ran at the same time, one
\* has returned 200 and the other is answered 409 for the duplicate row.
C1_Witness ==
  /\ Returned("submit") /\ Fresh(last.start) /\ last.raced
  /\ last.resp = Resp(409, MsgDuplicate)
  /\ \E r \in RowsOf(last.code) : r.returned

\* C2: every token is referenced by at most one response row, and every row
\* references a token that was valid and unused in the store when the row's
\* transaction committed.
C2_OneResponsePerToken ==
  /\ \A c \in Codes : Cardinality(RowsOf(c)) <= 1
  /\ \A r \in responses : r.tokenOk

\* A submission that ran at the same time as another of the same token has
\* committed its row.
C2_Witness ==
  \E p \in Procs : /\ procs[p].pc = "committed" /\ procs[p].raced
                    /\ RowsOf(procs[p].code) # {}

\* C3: a validation of a valid token of which no submission has succeeded
\* reports valid = true, and a validation that arrives after a submission of
\* the token has returned 200 reports valid = false with 'This token has
\* already been used.'.
C3_ValidUntilSubmitted ==
  (Returned("validate") /\ last.resp.status = 200) =>
    /\ (Fresh(last.start) /\ last.unusedAtEnd) => last.resp.valid
    /\ last.afterOk => (~last.resp.valid /\ last.resp.message = MsgUsed)

\* C4: in every committed state of the store a token is used if and only if
\* exactly one response row references it, and its used_at is set exactly
\* when it is used.
C4_UsedIffResponse ==
  /\ \A c \in Codes :
        tokens[c].exists =>
          /\ tokens[c].is_used <=> Cardinality(RowsOf(c)) = 1
          /\ ~tokens[c].is_used <=> RowsOf(c) = {}
          /\ tokens[c].is_used <=> tokens[c].used_at # "NULL"
  /\ \A r \in responses : tokens[r.token_id].exists

\* A token has been used.
C4_Witness == \E c \in Codes : tokens[c].is_used /\ Cardinality(RowsOf(c)) = 1

\* C5: is_used changes only from false to true and only in the commit of a
\* submit transaction of that token; a used token stays used; no step deletes
\* a Token row or changes its is_valid.
C5_UsedOnce ==
  [][\A c \in Codes :
       /\ tokens[c].exists => (tokens'[c].exists /\ tokens'[c].is_valid = tokens[c].is_valid)
       /\ tokens[c].is_used => tokens'[c].is_used
       /\ (~tokens[c].is_used /\ tokens'[c].is_used) =>
             \E p \in Procs : /\ procs[p].kind = "submit" /\ procs[p].pc = "update"
                               /\ procs[p].code = c /\ procs'[p].pc = "committed"]_vars

\* The seed script has created a token, and that token has been used since.
C5_Witness == tokens["C"].exists /\ tokens["C"].is_used /\ seed.runs > 0

\* C6: a well-formed submit request for a valid, unused token, alone with that
\* token, is answered 200 with the id of the row it created; the request
\* repeated after that answer is answered 409 and the token keeps its one row.
C6_SubmitThenRepeat ==
  Returned("submit") =>
    /\ (Fresh(last.start) /\ ~last.raced) =>
          /\ last.resp.status = 200
          /\ \E r \in RowsOf(last.code) : r.id = last.resp.responseId
    /\ last.afterOk =>
          /\ last.resp.status = 409
          /\ Cardinality(RowsOf(last.code)) = 1

\* The repeated request has been answered 409 'already used'.
C6_Witness ==
  Returned("submit") /\ last.afterOk /\ ~last.raced /\ last.resp = Resp(409, MsgUsed)

\* C7: a well-formed submit request is refused with 400 'Invalid token
\* provided.' when the transaction finds no token, with 400 'This token is not
\* valid for the contest.' when the token is not valid (used or not), with 409
\* 'This token has already been used.' when it is valid and used, and with 409
\* when the insert violates the unique index.
C7_SubmitRefusals ==
  (Returned("submit") /\ last.storeRead) =>
    /\ ~last.snap.exists => last.resp = Resp(400, MsgInvalid)
    /\ (last.snap.exists /\ ~last.snap.is_valid) => last.resp = Resp(400, MsgNotValid)
    /\ (last.snap.exists /\ last.snap.is_valid /\ last.snap.is_used) =>
          last.resp = Resp(409, MsgUsed)
    /\ (Fresh(last.snap) /\ last.resp.status # 200) => last.resp.status = 409

\* A token that is both used and not valid has been refused as not valid.
C7_Witness ==
  /\ Returned("submit") /\ last.storeRead
  /\ last.snap = UsedRevokedToken
  /\ last.resp = Resp(400, MsgNotValid)

\* C9: a validation that arrives while the negative verdict of an earlier
\* validation's miss is within its TTL (30 s for an unknown code, 5 min for a
\* used or not valid token) returns that verdict without reading the store,
\* and one that arrives after the TTL reads the store; this while the cache
\* stays below its capacity. Only the entries that no submission has replaced
\* since are looked at, which asks less than the sentence does.
C9_NegativeVerdictCached ==
  (Returned("validate") /\ last.expect # "none") =>
    IF last.expect = "hit"
    THEN /\ ~last.storeRead
         /\ last.resp.message = last.expectVerdict.message
         /\ ~last.resp.valid
    ELSE last.storeRead


\* C11: after any sequence of set, get, delete, clear and sweep the cache
\* holds at most maxSize entries, each key once.
C11_SizeWithinMax ==
  /\ Len(cache) <= MaxSize
  /\ \A i, j \in 1..Len(cache) : cache[i].key = cache[j].key => i = j

\* The cache is full and a set of a key it does not hold has just been made.
C11_Witness ==
  /\ Len(cache) = MaxSize
  /\ lastMut.op = "set" /\ cache[Len(cache)].key = lastMut.key
  /\ Cardinality(everSet) > MaxSize

\* C20: a set made while the cache holds maxSize entries or more first
\* removes the ceil(10% of maxSize) entries that are oldest in insertion
\* order and no other; a set made below the capacity removes none; and in
\* both cases get returns the value for the key right after the set, also
\* when the key was among the removed ones (it is then the newest entry).
C20_OldestTenth == (MaxSize + 9) \div 10

C20_EvictOldestThenInsert ==
  [][\A k \in FullKeys :
       CSet(k, VerdictUsed, TtlValid) =>
         LET n == IF Len(cache) >= MaxSize THEN Min(C20_OldestTenth, Len(cache)) ELSE 0
             oldest == {cache[i].key : i \in 1..n}
         IN /\ \A j \in oldest \ {k} : \A i \in 1..Len(cache') : cache'[i].key # j
            /\ \A i \in (n + 1)..Len(cache) :
                  cache[i].key # k => \E j \in 1..Len(cache') : cache'[j] = cache[i]
            /\ k \in oldest => cache'[Len(cache')].key = k
            /\ CacheGetValue(cache', k, now') = VerdictUsed]_vars

\* The cache was full, the key set was its oldest entry, and it is now the
\* newest one.
C20_Witness ==
  /\ lastMut.op = "set" /\ lastMut.key \in lastMut.evicted
  /\ cache # << >> /\ cache[Len(cache)].key = lastMut.key
  /\ CacheGetValue(cache, lastMut.key, now) = lastMut.value

\* The count stored for identifier k in the limiter's Map m, 0 when it has
\* no entry.
C16_Count(m, k) == IF RlHas(m, k) THEN RlEntry(m, k).count ELSE 0

\* C16: a check that returns success raises the identifier's stored count by
\* exactly one; a check that returns failure leaves the identifier's count
\* and resetTime unchanged.
C16_CountRaisedByOne ==
  [][\A ip \in Ips, ep \in Endpoints :
       LCheck(ip, ep) =>
         IF lastCheck'.success
         THEN C16_Count(rl', ip) = C16_Count(rl, ip) + 1
         ELSE RlEntry(rl', ip) = RlEntry(rl, ip)]_vars

\* C16, amended: a check that returns success stores the count it started
\* from plus one, where it starts from the identifier's stored count when the
\* identifier has an entry left after the size cap whose resetTime is not
\* before now, and from 0 (a new window ending at now + interval) otherwise;
\* a check that returns failure leaves the identifier's count and resetTime
\* unchanged.
C16_CountFromWindow ==
  [][\A ip \in Ips, ep \in Endpoints :
       LCheck(ip, ep) =>
         LET left == RlEntry(RlEvict(rl), ip)
             live == left # Undefined /\ ~(left.resetTime < now)
         IN IF lastCheck'.success
            THEN /\ RlHas(rl', ip)
                 /\ RlEntry(rl', ip).count = (IF live THEN left.count ELSE 0) + 1
                 /\ RlEntry(rl', ip).resetTime = (IF live THEN left.resetTime ELSE now + Interval)
            ELSE /\ live
                 /\ RlEntry(rl', ip) = RlEntry(rl, ip)]_vars

\* A check made after a full window has passed was admitted with count 1.
C16_Witness ==
  /\ lastCheck # NoCheck /\ lastCheck.success
  /\ now > Interval /\ lastCheck.reset = now + Interval
  /\ C16_Count(rl, lastCheck.ip) = 1
  /\ nChecks > 1

\* The submit requests of ip admitted in its window in progress.
C18_SubmitsInWindow(ip) ==
  IF granted[ip]["submit"].n > 0 /\ now <= granted[ip]["submit"].reset
  THEN granted[ip]["submit"].n
  ELSE 0

\* C18: the endpoints are limited separately: a submit request of an IP is
\* rejected only when 5 submit requests of that IP were admitted in the
\* window in progress, however many validate-token requests it made.
C18_SeparateLimits ==
  (lastCheck # NoCheck /\ lastCheck.ep = "submit" /\ ~lastCheck.success) =>
     C18_SubmitsInWindow(lastCheck.ip) >= SubmitLimit

\* C19: a check of an identifier whose window has not ended reports the
\* resetTime stored for it and leaves it in place; the first check after the
\* resetTime has passed is admitted and starts a window with count 1 that
\* ends at now + interval.
C19_WindowFixed ==
  [][\A ip \in Ips, ep \in Endpoints :
       (LCheck(ip, ep) /\ RlHas(rl, ip)) =>
         IF ~(RlEntry(rl, ip).resetTime < now)
         THEN /\ lastCheck'.reset = RlEntry(rl, ip).resetTime
              /\ RlHas(rl', ip) /\ RlEntry(rl', ip).resetTime = RlEntry(rl, ip).resetTime
         ELSE /\ lastCheck'.success
              /\ RlEntry(rl', ip) = [key |-> ip, count |-> 1, resetTime |-> now + Interval]]_vars

\* C12: when requests do not overlap and Token rows change through submit
\* alone, every validation answered 200, from the cache or from the store,
\* carries the message and the valid flag that the Token row in the store
\* gives at that moment.
C12_CacheAgreesWithStore ==
  (Returned("validate") /\ last.resp.status = 200) =>
     [message |-> last.resp.message, valid |-> last.resp.valid]
       = ValidateVerdict(tokens[last.code])

\* A validation made after a submission was answered from the cache.
C12_Witness ==
  /\ Returned("validate") /\ ~last.storeRead /\ last.afterOk
  /\ last.resp.message = MsgUsed /\ tokens[last.code].is_used

\* C13: on a cache miss validate-token answers 200 with valid = true exactly
\* when the token exists, is valid and is not used; otherwise with the
\* message of the first case among not found, used, not valid; and the
\* verdict is in the cache under token:<code> with a TTL of 30 s (not found),
\* 5 min (used, not valid) or 1 min (valid).
C13_MissVerdict ==
  (Returned("validate") /\ last.storeRead) =>
     LET t == last.snap
         e == CacheEntry(cache, "token:" \o last.code)
     IN /\ last.resp.status = 200
        /\ last.resp.valid <=> (t.exists /\ t.is_valid /\ ~t.is_used)
        /\ last.resp.message =
              (IF ~t.exists THEN "Invalid token provided."
               ELSE IF t.is_used THEN "This token has already been used."
               ELSE IF ~t.is_valid THEN "This token is not valid for the contest."
               ELSE "Token is valid")
        /\ e # Undefined
        /\ e.value = [message |-> last.resp.message, valid |-> last.resp.valid]
        /\ e.expiry = now + (IF ~t.exists THEN 30 * 1000
                             ELSE IF t.is_used \/ ~t.is_valid THEN 5 * 60 * 1000
                             ELSE 60 * 1000)

\* A token that is used and not valid was reported used, and cached so.
C13_Witness ==
  /\ Returned("validate") /\ last.storeRead /\ last.snap = UsedRevokedToken
  /\ last.resp.message = MsgUsed
  /\ CacheGetValue(cache, CacheKey(last.code), now) = VerdictUsed

\* C14: a request during which the limiter or a call of the cache threw is
\* answered as the store alone decides: never 429 when the limiter threw; a
\* validation whose cache get threw reads the store, and one that read the
\* store answers 200 with the verdict of the row it read; a submit answers
\* what its transaction decided, 200 with the id of its row when it
\* committed although the cache update threw.
C14_SoftFailures ==
  (last.pc = "done" /\ last.threw # {} /\ last.storeFailed = "none") =>
     /\ last.admitted
     /\ "limiter" \in last.threw => last.resp.status # 429
     /\ last.kind = "validate" =>
           /\ "get" \in last.threw => last.storeRead
           /\ last.storeRead =>
                 /\ last.resp.status = 200
                 /\ [message |-> last.resp.message, valid |-> last.resp.valid]
                       = ValidateVerdict(last.snap)
     /\ last.kind = "submit" =>
           IF Fresh(last.snap)
           THEN /\ last.resp.status = 200 /\ last.resp.message = "Submission successful!"
                /\ \E r \in RowsOf(last.code) : r.id = last.resp.responseId
           ELSE last.resp = TxErrorResponse(SubmitTokenCheck(last.snap))

\* A submission committed, the cache update threw, and the answer is 200.
C14_Witness ==
  /\ last.pc = "done" /\ last.kind = "submit"
  /\ last.threw \cap {"delete", "set"} # {}
  /\ last.resp.status = 200
  /\ tokens[last.code].is_used

\* C15: a validation whose store read fails answers valid = false with 503
\* when the store client is not initialised and with 500 otherwise, and
\* writes no verdict to the cache: with the cache working, a validation of
\* the code made next finds nothing there.
C15_StoreFailure ==
  (last.pc = "done" /\ last.kind = "validate" /\ last.storeFailed # "none") =>
     /\ ~last.resp.valid
     /\ last.resp.status = (IF last.storeFailed = "uninit" THEN 503 ELSE 500)
     /\ ~last.storeRead
     /\ last.threw = {} => CacheGetValue(cache, CacheKey(last.code), now) = Undefined

\* The store client was not initialised and the validation answered 503.
C15_Witness ==
  /\ last.pc = "done" /\ last.kind = "validate" /\ last.storeFailed = "uninit"
  /\ last.resp.status = 503 /\ cache # << >>

\* A field that is missing, not a string, or the empty string.
C17_Empty(f) == f.type # "string" \/ f.s = ""

C17_SubmitMalformed(contest, req) ==
  \/ ~req.json
  \/ ~req.object
  \/ C17_Empty(req.tokenCode) \/ C17_Empty(req.fullName) \/ C17_Empty(req.contactNumber)
  \/ req.contestType # Str(contest)
  \/ contest = "flower" /\ C17_Empty(req.secretFlowerName)
  \/ contest = "papaya" /\ ~(req.guess.type = "number" /\ req.guess.tenths > 0
                                                       /\ req.guess.tenths % 10 = 0)

C17_ValidateMalformed(req) == ~req.json \/ ~req.object \/ C17_Empty(req.tokenCode)

\* C17: a submit request the limiter admits whose body is not JSON or fails
\* the schema of the route's contest is answered 400 and starts no
\* transaction; a validate-token request the limiter admits whose body is not
\* JSON or has no non-empty tokenCode is answered 400 with valid = false and
\* reads neither the cache nor the store.
C17_MalformedRefused ==
  [][\A p \in Procs, code \in Codes, body \in AllBodies :
       LET req == BodyOf(body, code)
       IN /\ ( /\ FreeSlot(p)
               /\ C17_SubmitMalformed(variant, req)
               /\ RateLimitMiddleware(rl, "ip1", "submit", now).response = NoResponse
               /\ SubmitStart(p, code, "ip1", body, "none", MaxRequests) )
             => /\ last'.kind = "submit" /\ last'.pc = "done"
                /\ last'.resp.status = 400
                /\ ~last'.storeRead
                /\ procs' = procs /\ tokens' = tokens /\ responses' = responses
          /\ ( /\ FreeSlot(p)
               /\ C17_ValidateMalformed(req)
               /\ RateLimitMiddleware(rl, "ip1", "validate", now).response = NoResponse
               /\ ValidateStart(p, code, "ip1", body, "none", MaxRequests) )
             => /\ last'.kind = "validate" /\ last'.pc = "done"
                /\ last'.resp.status = 400 /\ ~last'.resp.valid
                /\ ~last'.storeRead
                /\ procs' = procs /\ cache' = cache]_vars

\* The papaya route has refused a body for its schema.
C17_Witness ==
  /\ last.pc = "done" /\ last.kind = "submit" /\ variant = "papaya"
  /\ last.resp = Resp(400, "Invalid input")
  /\ ~last.admitted

\* C8: for every identifier and every window of its counter, at most `limit`
\* checks of a route are admitted before the window's resetTime has passed,
\* whatever other identifiers do in between; a refused check is answered 429
\* with a Retry-After header.
C8_AtMostLimitPerWindow ==
  /\ \A ip \in Ips, ep \in Endpoints : granted[ip][ep].n <= Limit(ep)
  /\ (lastCheck # NoCheck /\ ~lastCheck.success) =>
        /\ lastCheck.response.status = 429
        /\ lastCheck.response.retryAfter = CeilDiv(lastCheck.reset - now, 1000)

\* C10: with no set, delete or clear made on the cache in between, a get of
\* the key last set returns the value set at every time up to and including
\* the time of the set plus the TTL and undefined at every later time; a get
\* of the key last deleted (or of any key after clear) returns undefined; a
\* get of a key that was never set returns undefined.
C10_GetSetDelete ==
  lastGet # NoGet =>
    /\ (lastMut.op = "set" /\ lastMut.key = lastGet.key) =>
          lastGet.result = IF now <= lastMut.at + lastMut.ttl
                           THEN lastMut.value
                           ELSE Undefined
    /\ (lastMut.op = "delete" /\ lastMut.key = lastGet.key) => lastGet.result = Undefined
    /\ lastMut.op = "clear" => lastGet.result = Undefined
    /\ lastGet.key \notin everSet => lastGet.result = Undefined

\* A get made exactly at the expiry time of the entry last set returns the
\* value.
C10_Witness ==
  /\ lastGet # NoGet
  /\ lastMut.op = "set"
  /\ lastMut.key = lastGet.key
  /\ now = lastMut.at + lastMut.ttl
  /\ lastGet.result = lastMut.value

\* The times a get can be made at from time t on.
C21_LaterTimes(t) == {t + j * TickMs : j \in 0..UnitMaxTicks}

\* C21: the sweep removes exactly the entries whose expiry is before the
\* current time and leaves every other entry as it was, value, expiry and
\* place; a get of any key made on the swept cache, at the time of the sweep
\* or later, returns what it would have returned had the sweep not run.
C21_SweepRemovesExpired ==
  [][CCleanup =>
       /\ \A i \in 1..Len(cache) :
             IF cache[i].expiry < now
             THEN ~CacheHas(cache', cache[i].key)
             ELSE CacheEntry(cache', cache[i].key) = cache[i]
       /\ \A i \in 1..Len(cache') : \E j \in 1..Len(cache) : cache'[i] = cache[j]
       /\ \A i, j \in 1..Len(cache') :
             i < j => CacheIndex(cache, cache'[i].key) < CacheIndex(cache, cache'[j].key)
       /\ \A k \in CacheKeys, t \in C21_LaterTimes(now) :
             CacheGetValue(cache', k, t) = CacheGetValue(cache, k, t)]_vars

\* A sweep has removed an expired entry and kept an entry that is exactly at
\* its expiry time.
C21_Witness ==
  /\ lastSweep.swept /\ lastSweep.removed # {}
  /\ \E i \in 1..Len(cache) : cache[i].expiry = now

\* C22: a submit request that is not answered 200 is answered 429, 400, 409
\* or 500, and no step of it has changed a Token row, a response row or an
\* entry of the token cache.
C22_RefusedSubmitWritesNothing ==
  (last.pc = "done" /\ last.kind = "submit" /\ last.resp.status # 200) =>
     /\ last.resp.status \in {429, 400, 409, 500}
     /\ last.wrote = {}

\* A submission that waited for the transaction of another one has been
\* refused for the duplicate row, after the other had marked the token used.
C22_Witness ==
  /\ last.pc = "done" /\ last.kind = "submit" /\ last.raced
  /\ last.resp = Resp(409, MsgDuplicate)
  /\ last.wrote = {}
  /\ tokens[last.code].is_used /\ RowsOf(last.code) # {}

\* The distinct non-empty trimmed lines of tokens.txt.
C23_FileCodes == {"A", "C"}

\* C23: after every run of the seed script each distinct non-empty trimmed
\* line of the file has its Token row, whatever number of runs were made; a
\* step of the script changes no row that exists (a used token stays used)
\* and creates rows only for codes of the file, valid and unused with
\* used_at NULL; the second of two lines with the same code leaves the codes
\* after it to be created.
C23_SeedIdempotent ==
  /\ [](/\ {TokenFile[i] : i \in 1..Len(TokenFile)} = C23_FileCodes
        /\ (seed.pc = "idle" /\ seed.runs > 0) =>
              \A c \in C23_FileCodes : tokens[c].exists)
  /\ [][(seed' # seed) =>
          \A c \in Codes :
            /\ tokens[c].exists => tokens'[c] = tokens[c]
            /\ (~tokens[c].exists /\ tokens'[c].exists) =>
                  /\ c \in C23_FileCodes
                  /\ tokens'[c] = [exists |-> TRUE, is_valid |-> TRUE, is_used |-> FALSE,
                                    used_at |-> "NULL"]]_vars

\* A run of the script created C, was refused the second C, which had been
\* used in between and is still used, and created A after it.
C23_Witness ==
  /\ seed.pc = "idle" /\ seed.runs > 0
  /\ seed.createdCount = 2 /\ seed.failedCount = 1
  /\ tokens["A"] = SeededToken
  /\ tokens["C"].is_used /\ RowsOf("C") # {}

\* C24: of two calls of submitToApi made less than 1000 ms apart at most one
\* sends POST /api/submit, and the later one resolves to false without
\* sending a request.
C24_SubmitThrottled ==
  \A i, j \in 1..Len(guessForm.calls) :
     (i < j /\ guessForm.calls[j].at - guessForm.calls[i].at < 1000) =>
        /\ ~guessForm.calls[j].sent
        /\ guessForm.calls[j].result = "false"

\* C25: the token form leaves its page only for /submit-guess, and only when
\* the response to its request was OK with valid = true; the request carried
\* the trimmed token and the URL carries it too.  After an empty token, a 429,
\* a response that is not OK or not valid, a timeout or a network error the
\* page stays and an error is shown.
C25_NavigatesOnlyWhenValid ==
  LET d == tokenForm.done
      o == d.outcome
  IN /\ (tokenForm.submits > 0 /\ router.page # "/") => d.pushed
     /\ d.pushed =>
           /\ d.why = "response" /\ o.type = "response"
           /\ o.status >= 200 /\ o.status <= 299 /\ o.valid
           /\ d.tokenCode = Join(Trim(d.entered)) /\ d.tokenCode # ""
           /\ router.page \in {"/submit-guess", "/confirmation"}
           /\ router.page = "/submit-guess" =>
                 DecodeURIComponent(router.token) = Trim(d.entered)
     /\ ( \/ d.why \in {"empty", "timeout"}
          \/ d.why = "response" /\
               (o.type = "network" \/ o.status = 429 \/ o.status < 200 \/ o.status > 299
                  \/ ~o.valid) )
           => /\ ~d.pushed
              /\ router.page = "/"
              /\ tokenForm.error # "null"

\* The token ' A B ' was answered valid: the request carried 'A B' and the
\* browser is on /submit-guess?token=A%20B.
C25_Witness ==
  /\ tokenForm.done.pushed
  /\ tokenForm.done.entered = <<" ", "A", " ", "B", " ">>
  /\ tokenForm.done.tokenCode = "A B"
  /\ router = Url("/submit-guess", <<"A", "%", "2", "0", "B">>)
  /\ guessForm.token = <<"A", " ", "B">>

\* C26: while the form stays on its page, a submission of the token form or
\* of the guess form that has not succeeded (a check of the form failed, the
\* throttle let no call through, the answer was 429 or an error, the request
\* timed out or the network failed) is followed by a state in which both
\* isLoading and isValidating / isSubmitting are false.
C26_FormsEnabledAgain ==
  /\ (router.page = "/" /\ tokenForm.done.why # "none" /\ ~tokenForm.done.pushed)
        ~> (~tokenForm.isLoading /\ ~tokenForm.isValidating)
  /\ (GuessShown /\ guessForm.failed)
        ~> (~guessForm.isLoading /\ ~guessForm.isSubmitting)

\* The guess form was answered 429, and its fields and button are enabled
\* again 800 ms later.
C26_Witness ==
  /\ GuessShown /\ guessForm.failed /\ guessForm.retryCount = 1
  /\ guessForm.calls # << >> /\ guessForm.calls[Len(guessForm.calls)].sent
  /\ now = guessForm.calls[Len(guessForm.calls)].at + 100 + 800
  /\ ~guessForm.isLoading /\ ~guessForm.isSubmitting


\* C27: no step of a validate-token request, whatever its outcome, creates,
\* updates or deletes a Token row or a response row: the rows after the
\* request are the rows before it.
C27_ValidateWritesNoRows ==
  /\ \A p \in Procs :
        procs[p].kind = "validate" => procs[p].wrote \cap {"tokens", "responses"} = {}
  /\ last.kind = "validate" => last.wrote \cap {"tokens", "responses"} = {}

\* A validation has read the store, cached its verdict and returned it.
C27_Witness ==
  /\ last.pc = "done" /\ last.kind = "validate" /\ last.storeRead
  /\ last.resp.status = 200
  /\ last.wrote = {"cache"}


\* C28: whatever the state of the token (absent, not valid, used, valid and
\* unused, used and not valid), the reason with which validate-token refuses
\* it on a cache miss is the reason with which submit refuses a well-formed
\* request that reads the same row, and the other way round.
C28_SameRefusalReason ==
  /\ (Returned("validate") /\ last.storeRead /\ ~last.resp.valid) =>
        last.resp.message = TxErrorResponse(SubmitTokenCheck(last.snap)).message
  /\ (Returned("submit") /\ last.storeRead /\ ~Fresh(last.snap)) =>
        last.resp.message = ValidateVerdict(last.snap).message


\* The number of checks of identifier k with `limit` that are admitted when
\* they are made one after the other at time t on the map m, none of them
\* after the window's resetTime; at most n are tried.
RECURSIVE C29_FurtherAdmitted(_, _, _, _, _)
C29_FurtherAdmitted(m, k, limit, t, n) ==
  LET res == RlCheck(m, k, limit, t)
  IN IF n = 0 \/ ~res.success THEN 0
     ELSE 1 + C29_FurtherAdmitted(res.map, k, limit, t, n - 1)

\* C29: the remaining value of an admitted check is the number of further
\* checks of that identifier that are admitted before its window resets.
C29_RemainingIsFurtherAdmitted ==
  (lastCheck # NoCheck /\ lastCheck.success) =>
     lastCheck.remaining =
        C29_FurtherAdmitted(rl, lastCheck.ip, Limit(lastCheck.ep), now,
                            2 * Limit(lastCheck.ep))


\* C30: whatever checks were made, of however many identifiers, the
\* limiter's Map holds at most uniqueTokenPerInterval + 1 entries.
C30_MapSizeCapped == Len(rl) <= UniqueTokenPerInterval + 1

\* More identifiers than the cap were admitted, the check just made deleted
\* the oldest entries and inserted its own, and the Map is at its largest.
C30_Witness ==
  /\ lastCheck # NoCheck /\ lastCheck.success
  /\ Cardinality({ip \in CrowdIps : granted[ip]["submit"].n > 0}) > UniqueTokenPerInterval + 1
  /\ Len(rl) = UniqueTokenPerInterval + 1
  /\ rl[Len(rl)].key = lastCheck.ip /\ rl[Len(rl)].count = 1

====
